---- MODULE Spec2Model ----
(***************************************************************************)
(* The sensor data service: the pub/sub bridge of src/mqtt_app.py, the     *)
(* HTTP binding of src/app.py and the store both write to.                 *)
(*                                                                         *)
(* Temperatures and humidities are in tenths (25.5 is 255).  Time is a     *)
(* discrete clock; NOW() is the clock's value when a handler's transaction *)
(* starts.  A payload is modelled by what json.loads makes of it.          *)
(***************************************************************************)
EXTENDS Integers, Sequences, FiniteSets, TLC

(* ------------------------------ bounds -------------------------------- *)

\* The clock runs over 1..MaxTime; explicit `time` fields are drawn from its
\* values before the last.
MaxTime == 3

\* The store holds at most MaxRows rows (requests that would exceed it are
\* not issued).
MaxRows == 2

\* A CreateBulk list has at most MaxBatch entries.
MaxBatch == 2

\* The messages a bridge is followed over when the order of its responses is
\* recorded.
MaxLog == 3

(* ------------------------------ values -------------------------------- *)

\* Python's None: an absent key, a JSON null, a NULL column.
None == -1

SensorIds == {0, 1}

Times == 1..MaxTime

\* The values a request's `time` field takes.
GivenTimes == 1..(MaxTime - 1)

Temps == {235, 255}

Hums == {450}

Opt(S) == S \cup {None}

\* A Reading: one row of sensor_data.
Rows == [time : Times, sensor_id : SensorIds,
         temperature : Opt(Temps), humidity : Opt(Hums)]

NoRow == [time |-> None, sensor_id |-> None, temperature |-> None, humidity |-> None]

(* ------------------------------ topics -------------------------------- *)

TOPICS ==
    [health_request        |-> "sensors/health/request",
     get_all_request       |-> "sensors/get_all/request",
     get_by_id_request     |-> "sensors/get_by_id/request",
     create_request        |-> "sensors/create/request",
     create_bulk_request   |-> "sensors/create_bulk/request",
     update_request        |-> "sensors/update/request",
     delete_request        |-> "sensors/delete/request",
     delete_by_id_request  |-> "sensors/delete_by_id/request",
     stats_request         |-> "sensors/stats/request",
     time_bucket_request   |-> "sensors/time_bucket/request",
     health_response       |-> "sensors/health/response",
     get_all_response      |-> "sensors/get_all/response",
     get_by_id_response    |-> "sensors/get_by_id/response",
     create_response       |-> "sensors/create/response",
     create_bulk_response  |-> "sensors/create_bulk/response",
     update_response       |-> "sensors/update/response",
     delete_response       |-> "sensors/delete/response",
     delete_by_id_response |-> "sensors/delete_by_id/response",
     stats_response        |-> "sensors/stats/response",
     time_bucket_response  |-> "sensors/time_bucket/response"]

\* The keys of TOPICS with 'request' in their name (on_connect's filter).
RequestKeys ==
    {"health_request", "get_all_request", "get_by_id_request", "create_request",
     "create_bulk_request", "update_request", "delete_request",
     "delete_by_id_request", "stats_request", "time_bucket_request"}

ResponseKeys == (DOMAIN TOPICS) \ RequestKeys

RequestTopics == {TOPICS[k] : k \in RequestKeys}

ResponseTopics == {TOPICS[k] : k \in ResponseKeys}

\* The topic the repository's data generator publishes on: bound to nothing.
MQTT_TOPIC == "sensors/sensegrid"

(* ------------------------------ payloads ------------------------------ *)

\* What the payload bytes are, as the handlers tell them apart:
\*   empty      no bytes at all
\*   badutf8    bytes that are not valid UTF-8
\*   badjson    text that json.loads rejects
\*   null       JSON that loads to a falsy non-container (null, 0, "", false)
\*   scalar     JSON that loads to a truthy non-container (5, "x", true)
\*   emptyobj   {}
\*   object     an object with at least one key
\*   emptylist  []
\*   list       a non-empty list
Kinds == {"empty", "badutf8", "badjson", "null", "scalar",
          "emptyobj", "object", "emptylist", "list"}

\* An entry of a list payload: an object (its keys as for a payload) or not.
Entry(isObj, sid, tm, temp, hum) ==
    [isObj |-> isObj, sensor_id |-> sid, time |-> tm,
     temperature |-> temp, humidity |-> hum]

Payload(kind, sid, tm, temp, hum, entries) ==
    [kind |-> kind, sensor_id |-> sid, time |-> tm,
     temperature |-> temp, humidity |-> hum, entries |-> entries,
     hours |-> None, limit |-> None, bucket |-> ""]

Bare(kind) == Payload(kind, None, None, None, None, <<>>)

Obj(sid, tm, temp, hum) == Payload("object", sid, tm, temp, hum, <<>>)

List(entries) == Payload("list", None, None, None, None, entries)

\* The parameters of a read: {"sensor_id": sid, "hours": hours}, either absent.
Query(sid, hours) == [Obj(sid, None, None, None) EXCEPT !.hours = hours]

\* {"sensor_id": sid, "limit": limit}
Limited(sid, limit) == [Obj(sid, None, None, None) EXCEPT !.limit = limit]

\* {"sensor_id": sid, "bucket": bucket}; "" stands for no `bucket` key.
Bucketed(sid, bucket) == [Obj(sid, None, None, None) EXCEPT !.bucket = bucket]

\* json.loads(payload) raises (json.JSONDecodeError).
JsonRaises(p) == p.kind = "badjson"

\* `json.loads(payload) if payload else dflt`, for a payload that loads.
Loaded(p, dflt) == IF p.kind = "empty" THEN dflt ELSE p

\* Python truthiness of a loaded value.
Truthy(d) == d.kind \in {"scalar", "object", "list"}

\* The loaded value is a dict: d.get(...) does not raise AttributeError.
IsDict(d) == d.kind \in {"emptyobj", "object"}

\* isinstance(d, list)
IsList(d) == d.kind \in {"emptylist", "list"}

(* ------------------------------ the store ----------------------------- *)

\* What befalls a handler: get_db_connection() raises, its first statement
\* raises, or, after conn.commit() and conn.close(), a statement that formats
\* or publishes the result raises.
Faults == {"ok", "connect_fail", "query_fail", "reply_fail"}

\* The store fails the handler: no connection, or a statement that raises.
StoreFails(fault) == fault \in {"connect_fail", "query_fail"}

KeyExists(st, tm, sid) == \E r \in st : r.time = tm /\ r.sensor_id = sid

\* (time, sensor_id) identifies a reading.
KeyUnique(st) ==
    \A r1, r2 \in st : (r1.time = r2.time /\ r1.sensor_id = r2.sensor_id) => r1 = r2

MkRow(tm, sid, temp, hum) ==
    [time |-> tm, sensor_id |-> sid, temperature |-> temp, humidity |-> hum]

\* INSERT INTO sensor_data ... : the unique key rejects a second row for
\* (time, sensor_id) with an IntegrityError; the table is left as it was.
StoreInsert(st, row) ==
    IF KeyExists(st, row.time, row.sensor_id)
    THEN [ok |-> FALSE, store |-> st]
    ELSE [ok |-> TRUE, store |-> st \cup {row}]

Coalesce(new, old) == IF new # None THEN new ELSE old

\* An UPDATE that assigns the parameters as they are, NULL included.
UpdatedRow_overwrite(r, temp, hum) ==
    [r EXCEPT !.temperature = temp, !.humidity = hum]

\* UPDATE sensor_data SET temperature = COALESCE(%s, temperature),
\*   humidity = COALESCE(%s, humidity) WHERE time = %s AND sensor_id = %s
UpdatedRow(r, temp, hum) ==
    [r EXCEPT !.temperature = Coalesce(temp, r.temperature),
              !.humidity = Coalesce(hum, r.humidity)]

StoreUpdate(st, tm, sid, temp, hum) ==
    {IF r.time = tm /\ r.sensor_id = sid THEN UpdatedRow(r, temp, hum) ELSE r : r \in st}

\* A WHERE clause that names the sensor only.
Matching_bySensor(st, tm, sid) == {r \in st : r.sensor_id = sid}

\* WHERE time = %s AND sensor_id = %s
Matching(st, tm, sid) == {r \in st : r.time = tm /\ r.sensor_id = sid}

OfSensor(st, sid) == {r \in st : r.sensor_id = sid}

(* ------------------------------ queries ------------------------------- *)

\* One step of the clock is 90 minutes (two consecutive readings are 90
\* minutes apart).
TickMinutes == 90

Minutes(tm) == tm * TickMinutes

\* data.get('hours', 24)
DefaultHours == 24

\* data.get('limit', 100)
DefaultLimit == 100

\* data.get('bucket', '1 hour'), in minutes.
BucketMinutes == 60

\* data.get('bucket', '1 hour')
DefaultBucket == "1 hour"

\* A `bucket` that closes the quote and the call it is placed in and goes on
\* with a second command.
StackedBucket == "1 hour', time); DELETE FROM sensor_data; --"

\* A `bucket` that closes the quote and the call it is placed in, adds a
\* column that calls a function of the store which deletes the table's rows,
\* and reopens the call and the quote.
CallingBucket ==
    "1 hour', time), (SELECT count(*) FROM drop_chunks('sensor_data', now())), time_bucket('1 hour"

\* query = f"... time_bucket('{bucket}', time) AS bucket ...": the text is
\* placed between the quotes as it is.  The statement the store is sent: how
\* many commands it holds, the width of its time_bucket in minutes (None if
\* the text is no interval), and whether a column of it deletes the rows.
BucketQuery(bucket) ==
    CASE bucket = "1 hour"      -> [commands |-> 1, width |-> 60, deletes |-> FALSE]
      [] bucket = "15 minutes"  -> [commands |-> 1, width |-> 15, deletes |-> FALSE]
      [] bucket = StackedBucket -> [commands |-> 2, width |-> 60, deletes |-> TRUE]
      [] bucket = CallingBucket -> [commands |-> 1, width |-> 60, deletes |-> TRUE]
      [] OTHER                  -> [commands |-> 1, width |-> None, deletes |-> FALSE]

\* cursor.execute(query, params) raises on the statement: psycopg 3 sends a
\* statement with parameters as one prepared statement, which the store
\* refuses to hold more than one command; a width that is no interval is
\* refused too.
QueryRaises(q) == q.commands > 1 \/ q.width = None

\* The table as the statement's transaction sees it once the statement ran.
Executed(st, q) == IF q.deletes THEN {} ELSE st

\* cursor.execute(query, params) of psycopg 3 binds on the server: the k-th %s
\* of the query text, the one between the quotes of INTERVAL '%s hours' too,
\* is rewritten to $k and the values travel apart from the text.  What the
\* server finds between the quotes is "$k hours", whatever `hours` is.
IntervalText(k, hours) == [sign |-> "$", number |-> k, unit |-> "hours"]

\* The store reads an interval literal as <number> <unit>; punctuation before
\* the number is skipped as a delimiter.  The hours of the literal.
IntervalHours(text) == text.number

\* A read's statement raises: the store's fault (no connection, a failing
\* statement) or a failure while the rows are formatted and published.
ReadRaises(fault) == fault # "ok"

\* time > NOW() - INTERVAL '<hours> hours'
InWindow(r, t, hours) == Minutes(r.time) > Minutes(t) - hours * 60

\* `if sensor_id:` chooses the statement with `sensor_id = %s`: a sensor_id
\* that is absent or 0 selects every sensor.
Selected(st, t, sid, hours) ==
    {r \in st : /\ (sid # None /\ sid # 0) => r.sensor_id = sid
                /\ InWindow(r, t, hours)}

\* WHERE sensor_id = %s AND time > ... (handle_get_sensor_by_id).
SelectedOf(st, t, sid, hours) ==
    {r \in st : r.sensor_id = sid /\ InWindow(r, t, hours)}

\* The place of the interval's %s among the placeholders of the statement
\* `if sensor_id:` chooses: the second after `sensor_id = %s`, else the first.
HoursPlace(sid) == IF sid # None /\ sid # 0 THEN 2 ELSE 1

\* The rows the WHERE clause of the chosen statement selects, executed with
\* (sensor_id, hours, ...) or (hours, ...).
Fetched(st, t, sid, hours) ==
    Selected(st, t, sid, IntervalHours(IntervalText(HoursPlace(sid), hours)))

\* The rows the WHERE clause of GetById selects, executed with
\* (sensor_id, hours).
FetchedOf(st, t, sid, hours) ==
    SelectedOf(st, t, sid, IntervalHours(IntervalText(2, hours)))

\* ORDER BY ... : the elements of S by descending key; elements of equal key
\* come in an order of the server's choosing.
RECURSIVE Ordered(_, _)
Ordered(S, key) ==
    IF S = {} THEN <<>>
    ELSE LET x == CHOOSE x \in S : \A y \in S : key[x] >= key[y]
         IN <<x>> \o Ordered(S \ {x}, key)

\* LIMIT n
Limit(seq, n) == SubSeq(seq, 1, IF Len(seq) < n THEN Len(seq) ELSE n)

\* ORDER BY time DESC
NewestFirst(S) == Ordered(S, [r \in S |-> r.time])

RECURSIVE SumOf(_, _)
SumOf(S, field) ==
    IF S = {} THEN 0
    ELSE LET x == CHOOSE x \in S : TRUE IN x[field] + SumOf(S \ {x}, field)

\* AVG(column): the mean of the non-NULL values, as the fraction sum/n, or
\* NULL when there is none.
Avg(S, field) ==
    LET vals == {r \in S : r[field] # None} IN
    IF vals = {} THEN [sum |-> None, n |-> 0]
    ELSE [sum |-> SumOf(vals, field), n |-> Cardinality(vals)]

\* SELECT sensor_id, COUNT(*), AVG(temperature), ... GROUP BY sensor_id
\* ORDER BY sensor_id
StatsOf(S) ==
    LET groups == {[sensor_id       |-> sid,
                    total_readings  |-> Cardinality(OfSensor(S, sid)),
                    avg_temperature |-> Avg(OfSensor(S, sid), "temperature"),
                    avg_humidity    |-> Avg(OfSensor(S, sid), "humidity")] :
                   sid \in {r.sensor_id : r \in S}}
    IN Ordered(groups, [g \in groups |-> 0 - g.sensor_id])

\* time_bucket('<bucket>', time): the start of the bucket, in minutes.
time_bucket(width, tm) == (Minutes(tm) \div width) * width

\* SELECT time_bucket(...) AS bucket, sensor_id, ..., COUNT(*) as readings
\* GROUP BY bucket, sensor_id ORDER BY bucket DESC
BucketsOf(S, width) ==
    LET In(b, sid) == {r \in S : time_bucket(width, r.time) = b /\ r.sensor_id = sid}
        groups == {[bucket          |-> time_bucket(width, r.time),
                    sensor_id       |-> r.sensor_id,
                    avg_temperature |-> Avg(In(time_bucket(width, r.time), r.sensor_id),
                                            "temperature"),
                    readings        |-> Cardinality(In(time_bucket(width, r.time),
                                                       r.sensor_id))] : r \in S}
    IN Ordered(groups, [g \in groups |-> g.bucket * 10 - g.sensor_id])

(* ------------------------------ envelopes ----------------------------- *)

\* The `data` of an envelope: the error text or the message text, the row
\* returned (create, update), the count reported (bulk, delete, reads) and
\* the list returned by a read.
Data(err, msg, row, count) ==
    [error |-> err, message |-> msg, row |-> row, count |-> count, rows |-> <<>>]

\* {'data': result, ...} of a read.
Listing(rows, count) == [Data("", "", NoRow, count) EXCEPT !.rows = rows]

Err(text) == Data(text, "", NoRow, None)

\* str(e) of an exception caught by `except Exception`.
ExcText == "exception"

\* publish_response(client, topic, data, status_code): one client.publish.
publish_response(topic, data, status_code) ==
    [topic |-> topic, status_code |-> status_code, data |-> data]

\* What a handler did: the store it left, the envelopes it published, and
\* how many store connections it opened and closed.
Result(st, envs) == [store |-> st, resp |-> envs, opened |-> 0, closed |-> 0]

\* The handler got a connection from get_db_connection() and left without
\* calling conn.close().
Opened(r) == [r EXCEPT !.opened = 1]

\* The handler got a connection and called conn.close().
Closed(r) == [r EXCEPT !.opened = 1, !.closed = 1]

Reply(st, topic, data, status_code) ==
    Result(st, <<publish_response(topic, data, status_code)>>)

\* The `except Exception` clause after the store failed: get_db_connection()
\* raised (no connection), or a statement raised on the open connection,
\* which the clause does not close; or, in a read, after the rows were
\* fetched and the connection closed, while they are formatted and published.
Failed(st, topic, fault) ==
    IF fault = "connect_fail"
    THEN Reply(st, topic, Err(ExcText), 500)
    ELSE IF fault = "reply_fail"
    THEN Closed(Reply(st, topic, Err(ExcText), 500))
    ELSE Opened(Reply(st, topic, Err(ExcText), 500))

\* The end of a handler's try block after its write is committed and its
\* connection closed: the result is formatted and published (returned).  An
\* exception there reaches `except Exception`, which answers 500 with the
\* error text; the committed write stays.
Finish(fault, topic, r) ==
    IF fault = "reply_fail"
    THEN [r EXCEPT !.resp = <<publish_response(topic, Err(ExcText), 500)>>]
    ELSE r

(* ------------------------- pub/sub handlers --------------------------- *)
(* Each handler: the store `st` and clock `t` it runs against, the decoded *)
(* payload text `p`, and what the store does to it (`fault`).              *)

\* data.get('hours', 24)
HoursOf(data) == IF data.hours # None THEN data.hours ELSE DefaultHours

\* data.get('bucket', '1 hour')
BucketOf(data) == IF data.bucket # "" THEN data.bucket ELSE DefaultBucket

\* data.get('limit', 100)
LimitOf(data) == IF data.limit # None THEN data.limit ELSE DefaultLimit

\* The rows fetched by the statement of GetAll: both of its forms, the one
\* with `sensor_id = %s` too, end in ORDER BY time DESC LIMIT %s.
get_all_rows(st, t, data) ==
    Limit(NewestFirst(Fetched(st, t, data.sensor_id, HoursOf(data))), LimitOf(data))

\* The rows fetched by the statement of GetById: no LIMIT.
get_by_id_rows(st, t, data) ==
    NewestFirst(FetchedOf(st, t, data.sensor_id, HoursOf(data)))

\* The handler without its try/except: the exception of get_db_connection()
\* leaves it and nothing is published.
handle_health_check_uncaught(st, t, p, fault) ==
    IF fault = "connect_fail"
    THEN Result(st, <<>>)
    ELSE Closed(Reply(st, TOPICS.health_response, Data("", "healthy", NoRow, None), 200))

handle_health_check(st, t, p, fault) ==
    IF fault = "connect_fail"
    THEN Reply(st, TOPICS.health_response, Err(ExcText), 500)
    ELSE Closed(Reply(st, TOPICS.health_response, Data("", "healthy", NoRow, None), 200))

\* `if sensor_id:` filters on a sensor_id that is neither absent nor 0.
handle_get_all_sensors(st, t, p, fault) ==
    IF fault = "connect_fail"
    THEN Reply(st, TOPICS.get_all_response, Err(ExcText), 500)
    ELSE IF JsonRaises(p)
    THEN Opened(Reply(st, TOPICS.get_all_response, Err(ExcText), 500))
    ELSE LET data == Loaded(p, Bare("emptyobj")) IN
         IF ~IsDict(data)
         THEN Opened(Reply(st, TOPICS.get_all_response, Err(ExcText), 500))
         ELSE IF ReadRaises(fault)
         THEN Failed(st, TOPICS.get_all_response, fault)
         ELSE LET result == get_all_rows(st, t, data)
              IN Closed(Reply(st, TOPICS.get_all_response,
                              Listing(result, Len(result)), 200))

handle_get_sensor_by_id(st, t, p, fault) ==
    IF JsonRaises(p)
    THEN Reply(st, TOPICS.get_by_id_response, Err(ExcText), 500)
    ELSE LET data == Loaded(p, Bare("emptyobj")) IN
         IF ~IsDict(data)
         THEN Reply(st, TOPICS.get_by_id_response, Err(ExcText), 500)
         ELSE IF data.sensor_id = None
         THEN Reply(st, TOPICS.get_by_id_response, Err("sensor_id is required"), 400)
         ELSE IF ReadRaises(fault)
         THEN Failed(st, TOPICS.get_by_id_response, fault)
         ELSE LET result == get_by_id_rows(st, t, data)
              IN Closed(Reply(st, TOPICS.get_by_id_response,
                              Listing(result, Len(result)), 200))

\* The handler with an INSERT ... ON CONFLICT DO UPDATE in place of its INSERT.
handle_create_sensor_upsert(st, t, p, fault) ==
    IF JsonRaises(p)
    THEN Reply(st, TOPICS.create_response, Err(ExcText), 500)
    ELSE LET data == Loaded(p, Bare("emptyobj")) IN
         IF ~Truthy(data)
         THEN Reply(st, TOPICS.create_response, Err("No data provided"), 400)
         ELSE IF ~IsDict(data)
         THEN Reply(st, TOPICS.create_response, Err(ExcText), 500)
         ELSE IF data.sensor_id = None
         THEN Reply(st, TOPICS.create_response, Err("sensor_id is required"), 400)
         ELSE IF StoreFails(fault)
         THEN Failed(st, TOPICS.create_response, fault)
         ELSE LET tm  == IF data.time # None THEN data.time ELSE t
                  row == MkRow(tm, data.sensor_id, data.temperature, data.humidity)
              IN Closed(Reply((st \ Matching(st, tm, data.sensor_id)) \cup {row},
                              TOPICS.create_response,
                              Data("", "Sensor data created successfully", row, None), 201))

\* The handler without its `except psycopg.IntegrityError` clause.
handle_create_sensor_no409(st, t, p, fault) ==
    IF JsonRaises(p)
    THEN Reply(st, TOPICS.create_response, Err(ExcText), 500)
    ELSE LET data == Loaded(p, Bare("emptyobj")) IN
         IF ~Truthy(data)
         THEN Reply(st, TOPICS.create_response, Err("No data provided"), 400)
         ELSE IF ~IsDict(data)
         THEN Reply(st, TOPICS.create_response, Err(ExcText), 500)
         ELSE IF data.sensor_id = None
         THEN Reply(st, TOPICS.create_response, Err("sensor_id is required"), 400)
         ELSE IF StoreFails(fault)
         THEN Failed(st, TOPICS.create_response, fault)
         ELSE LET tm  == IF data.time # None THEN data.time ELSE t
                  ins == StoreInsert(st, MkRow(tm, data.sensor_id,
                                               data.temperature, data.humidity))
              IN IF ~ins.ok
                 THEN Opened(Reply(st, TOPICS.create_response, Err(ExcText), 500))
                 ELSE Closed(Reply(ins.store, TOPICS.create_response,
                                   Data("", "Sensor data created successfully",
                                        MkRow(tm, data.sensor_id, data.temperature,
                                              data.humidity),
                                        None), 201))

\* The handler with its validation after get_db_connection().
handle_create_sensor_connects_first(st, t, p, fault) ==
    IF fault = "connect_fail"
    THEN Reply(st, TOPICS.create_response, Err(ExcText), 500)
    ELSE IF JsonRaises(p)
    THEN Opened(Reply(st, TOPICS.create_response, Err(ExcText), 500))
    ELSE LET data == Loaded(p, Bare("emptyobj")) IN
         IF ~Truthy(data)
         THEN Opened(Reply(st, TOPICS.create_response, Err("No data provided"), 400))
         ELSE IF ~IsDict(data)
         THEN Opened(Reply(st, TOPICS.create_response, Err(ExcText), 500))
         ELSE IF data.sensor_id = None
         THEN Opened(Reply(st, TOPICS.create_response, Err("sensor_id is required"), 400))
         ELSE IF StoreFails(fault)
         THEN Failed(st, TOPICS.create_response, fault)
         ELSE LET tm  == IF data.time # None THEN data.time ELSE t
                  ins == StoreInsert(st, MkRow(tm, data.sensor_id,
                                               data.temperature, data.humidity))
              IN IF ~ins.ok
                 THEN Opened(Reply(st, TOPICS.create_response,
                                   Err("Duplicate entry for this time and sensor_id"), 409))
                 ELSE Closed(Reply(ins.store, TOPICS.create_response,
                                   Data("", "Sensor data created successfully",
                                        MkRow(tm, data.sensor_id, data.temperature,
                                              data.humidity),
                                        None), 201))

\* The IntegrityError of a duplicate key leaves through its except clause,
\* which publishes the 409 and does not close the connection.
handle_create_sensor(st, t, p, fault) ==
    IF JsonRaises(p)
    THEN Reply(st, TOPICS.create_response, Err(ExcText), 500)
    ELSE LET data == Loaded(p, Bare("emptyobj")) IN
         IF ~Truthy(data)
         THEN Reply(st, TOPICS.create_response, Err("No data provided"), 400)
         ELSE IF ~IsDict(data)
         THEN Reply(st, TOPICS.create_response, Err(ExcText), 500)
         ELSE IF data.sensor_id = None
         THEN Reply(st, TOPICS.create_response, Err("sensor_id is required"), 400)
         ELSE IF StoreFails(fault)
         THEN Failed(st, TOPICS.create_response, fault)
         ELSE LET tm  == IF data.time # None THEN data.time ELSE t
                  ins == StoreInsert(st, MkRow(tm, data.sensor_id,
                                               data.temperature, data.humidity))
              IN IF ~ins.ok
                 THEN Opened(Reply(st, TOPICS.create_response,
                                   Err("Duplicate entry for this time and sensor_id"), 409))
                 ELSE Finish(fault, TOPICS.create_response,
                             Closed(Reply(ins.store, TOPICS.create_response,
                                   Data("", "Sensor data created successfully",
                                        MkRow(tm, data.sensor_id, data.temperature,
                                              data.humidity),
                                        None), 201)))

\* The loop of handle_create_bulk_sensors over entries[i..]: the table as the
\* open transaction sees it, the count so far, and whether an entry raised.
\* NOW() is the time the transaction started: the same for every entry.
RECURSIVE BulkLoop(_, _, _, _, _)
BulkLoop(st, t, entries, i, count) ==
    IF i > Len(entries)
    THEN [ok |-> TRUE, store |-> st, count |-> count]
    ELSE LET entry == entries[i] IN
         IF ~entry.isObj
         THEN [ok |-> FALSE, store |-> st, count |-> count]
         ELSE IF entry.sensor_id = None
         THEN BulkLoop(st, t, entries, i + 1, count)
         ELSE LET tm  == IF entry.time # None THEN entry.time ELSE t
                  ins == StoreInsert(st, MkRow(tm, entry.sensor_id,
                                               entry.temperature, entry.humidity))
              IN IF ~ins.ok
                 THEN [ok |-> FALSE, store |-> st, count |-> count]
                 ELSE BulkLoop(ins.store, t, entries, i + 1, count + 1)

\* A connection in autocommit mode: what each statement did stays.
Abandoned_autocommit(st, run) == run.store

\* The table after the handler left its transaction without conn.commit():
\* what its statements did before (the inserts of the loop before the
\* exception, the deletes of a read's statement) is not in it.
Abandoned(st, run) == st

\* An exception inside the loop (an entry that is no object, a duplicate key)
\* reaches `except Exception`: nothing is committed, the connection stays open.
handle_create_bulk_sensors(st, t, p, fault) ==
    IF JsonRaises(p)
    THEN Reply(st, TOPICS.create_bulk_response, Err(ExcText), 500)
    ELSE LET data == Loaded(p, Bare("emptylist")) IN
         IF ~Truthy(data) \/ ~IsList(data)
         THEN Reply(st, TOPICS.create_bulk_response,
                    Err("Expected a list of sensor data"), 400)
         ELSE IF StoreFails(fault)
         THEN Failed(st, TOPICS.create_bulk_response, fault)
         ELSE LET run == BulkLoop(st, t, data.entries, 1, 0) IN
              IF ~run.ok
              THEN Opened(Reply(Abandoned(st, run), TOPICS.create_bulk_response,
                                Err(ExcText), 500))
              ELSE Finish(fault, TOPICS.create_bulk_response,
                          Closed(Reply(run.store, TOPICS.create_bulk_response,
                                Data("", "records inserted successfully", NoRow,
                                     run.count), 201)))

handle_update_sensor(st, t, p, fault) ==
    IF JsonRaises(p)
    THEN Reply(st, TOPICS.update_response, Err(ExcText), 500)
    ELSE LET data == Loaded(p, Bare("emptyobj")) IN
         IF ~Truthy(data)
         THEN Reply(st, TOPICS.update_response, Err("No data provided"), 400)
         ELSE IF ~IsDict(data)
         THEN Reply(st, TOPICS.update_response, Err(ExcText), 500)
         ELSE IF data.time = None \/ data.sensor_id = None
         THEN Reply(st, TOPICS.update_response,
                    Err("time and sensor_id are required to identify the record"), 400)
         ELSE IF StoreFails(fault)
         THEN Failed(st, TOPICS.update_response, fault)
         ELSE LET hit == Matching(st, data.time, data.sensor_id) IN
              IF hit = {}
              THEN Closed(Reply(st, TOPICS.update_response, Err("Record not found"), 404))
              ELSE LET new == StoreUpdate(st, data.time, data.sensor_id,
                                          data.temperature, data.humidity)
                       row == CHOOSE r \in Matching(new, data.time, data.sensor_id) : TRUE
                   IN Finish(fault, TOPICS.update_response,
                             Closed(Reply(new, TOPICS.update_response,
                                   Data("", "Sensor data updated successfully", row, None),
                                   200)))

\* The handler with a DELETE that names the sensor only.
handle_delete_sensor_of_sensor(st, t, p, fault) ==
    IF JsonRaises(p)
    THEN Reply(st, TOPICS.delete_response, Err(ExcText), 500)
    ELSE LET data == Loaded(p, Bare("emptyobj")) IN
         IF ~IsDict(data)
         THEN Reply(st, TOPICS.delete_response, Err(ExcText), 500)
         ELSE IF data.time = None \/ data.sensor_id = None
         THEN Reply(st, TOPICS.delete_response,
                    Err("time and sensor_id are required"), 400)
         ELSE IF StoreFails(fault)
         THEN Failed(st, TOPICS.delete_response, fault)
         ELSE LET hit == OfSensor(st, data.sensor_id) IN
              IF Cardinality(hit) = 0
              THEN Closed(Reply(st, TOPICS.delete_response, Err("Record not found"), 404))
              ELSE Closed(Reply(st \ hit, TOPICS.delete_response,
                                Data("", "Sensor data deleted successfully", NoRow,
                                     Cardinality(hit)), 200))

handle_delete_sensor(st, t, p, fault) ==
    IF JsonRaises(p)
    THEN Reply(st, TOPICS.delete_response, Err(ExcText), 500)
    ELSE LET data == Loaded(p, Bare("emptyobj")) IN
         IF ~IsDict(data)
         THEN Reply(st, TOPICS.delete_response, Err(ExcText), 500)
         ELSE IF data.time = None \/ data.sensor_id = None
         THEN Reply(st, TOPICS.delete_response,
                    Err("time and sensor_id are required"), 400)
         ELSE IF StoreFails(fault)
         THEN Failed(st, TOPICS.delete_response, fault)
         ELSE LET hit == Matching(st, data.time, data.sensor_id) IN
              IF Cardinality(hit) = 0
              THEN Closed(Reply(st, TOPICS.delete_response, Err("Record not found"), 404))
              ELSE Finish(fault, TOPICS.delete_response,
                          Closed(Reply(st \ hit, TOPICS.delete_response,
                                Data("", "Sensor data deleted successfully", NoRow,
                                     Cardinality(hit)), 200)))

\* The handler with the `if deleted_count == 0` of handle_delete_sensor.
handle_delete_sensor_by_id_404(st, t, p, fault) ==
    IF JsonRaises(p)
    THEN Reply(st, TOPICS.delete_by_id_response, Err(ExcText), 500)
    ELSE LET data == Loaded(p, Bare("emptyobj")) IN
         IF ~IsDict(data)
         THEN Reply(st, TOPICS.delete_by_id_response, Err(ExcText), 500)
         ELSE IF data.sensor_id = None
         THEN Reply(st, TOPICS.delete_by_id_response, Err("sensor_id is required"), 400)
         ELSE IF StoreFails(fault)
         THEN Failed(st, TOPICS.delete_by_id_response, fault)
         ELSE LET hit == OfSensor(st, data.sensor_id) IN
              IF Cardinality(hit) = 0
              THEN Closed(Reply(st, TOPICS.delete_by_id_response,
                                Err("Record not found"), 404))
              ELSE Closed(Reply(st \ hit, TOPICS.delete_by_id_response,
                                Data("", "Deleted records for sensor", NoRow,
                                     Cardinality(hit)), 200))

handle_delete_sensor_by_id(st, t, p, fault) ==
    IF JsonRaises(p)
    THEN Reply(st, TOPICS.delete_by_id_response, Err(ExcText), 500)
    ELSE LET data == Loaded(p, Bare("emptyobj")) IN
         IF ~IsDict(data)
         THEN Reply(st, TOPICS.delete_by_id_response, Err(ExcText), 500)
         ELSE IF data.sensor_id = None
         THEN Reply(st, TOPICS.delete_by_id_response, Err("sensor_id is required"), 400)
         ELSE IF StoreFails(fault)
         THEN Failed(st, TOPICS.delete_by_id_response, fault)
         ELSE LET hit == OfSensor(st, data.sensor_id) IN
              Finish(fault, TOPICS.delete_by_id_response,
                     Closed(Reply(st \ hit, TOPICS.delete_by_id_response,
                           Data("", "Deleted records for sensor", NoRow,
                                Cardinality(hit)), 200)))

handle_get_stats(st, t, p, fault) ==
    IF JsonRaises(p)
    THEN Reply(st, TOPICS.stats_response, Err(ExcText), 500)
    ELSE LET data == Loaded(p, Bare("emptyobj")) IN
         IF ~IsDict(data)
         THEN Reply(st, TOPICS.stats_response, Err(ExcText), 500)
         ELSE IF ReadRaises(fault)
         THEN Failed(st, TOPICS.stats_response, fault)
         ELSE LET result == StatsOf(Fetched(st, t, data.sensor_id, HoursOf(data)))
              IN Closed(Reply(st, TOPICS.stats_response, Listing(result, None), 200))

handle_time_bucket(st, t, p, fault) ==
    IF JsonRaises(p)
    THEN Reply(st, TOPICS.time_bucket_response, Err(ExcText), 500)
    ELSE LET data == Loaded(p, Bare("emptyobj")) IN
         IF ~IsDict(data)
         THEN Reply(st, TOPICS.time_bucket_response, Err(ExcText), 500)
         ELSE LET q == BucketQuery(BucketOf(data)) IN
         IF ReadRaises(fault) \/ QueryRaises(q)
         THEN Failed(st, TOPICS.time_bucket_response, fault)
         ELSE LET result == BucketsOf(Fetched(st, t, data.sensor_id, HoursOf(data)),
                                      q.width)
                  run    == [store |-> Executed(st, q)]
              IN Closed(Reply(Abandoned(st, run), TOPICS.time_bucket_response,
                              Listing(result, None), 200))

(* --------------------------- HTTP handlers ---------------------------- *)
(* The view functions of src/app.py.  `p` is the request body or, for GET   *)
(* and DELETE, the query arguments and path parameters as an object; the    *)
(* response is the envelope returned on the request's route.                *)

ROUTES ==
    [health       |-> "GET /health",
     get_all      |-> "GET /api/sensors",
     get_by_id    |-> "GET /api/sensors/<int:sensor_id>",
     create       |-> "POST /api/sensors",
     create_bulk  |-> "POST /api/sensors/bulk",
     update       |-> "PUT /api/sensors",
     delete       |-> "DELETE /api/sensors",
     delete_by_id |-> "DELETE /api/sensors/<int:sensor_id>",
     stats        |-> "GET /api/sensors/stats",
     time_bucket  |-> "GET /api/sensors/time-bucket"]

HttpRoutes == {ROUTES[k] : k \in DOMAIN ROUTES}

\* request.get_json() raises (no body, undecodable bytes, malformed JSON).
GetJsonRaises(p) == p.kind \in {"empty", "badutf8", "badjson"}

jsonify(route, data, status_code) ==
    [topic |-> route, status_code |-> status_code, data |-> data]

Respond(st, route, data, status_code) ==
    Result(st, <<jsonify(route, data, status_code)>>)

\* The `except Exception` clause of a view after the store failed.
ViewFailed(st, route, fault) ==
    IF fault = "connect_fail"
    THEN Respond(st, route, Err(ExcText), 500)
    ELSE IF fault = "reply_fail"
    THEN Closed(Respond(st, route, Err(ExcText), 500))
    ELSE Opened(Respond(st, route, Err(ExcText), 500))

health_check(st, t, p, fault) ==
    IF fault = "connect_fail"
    THEN Respond(st, ROUTES.health, Err(ExcText), 500)
    ELSE Closed(Respond(st, ROUTES.health, Data("", "healthy", NoRow, None), 200))

get_all_sensor_data(st, t, p, fault) ==
    IF ReadRaises(fault)
    THEN ViewFailed(st, ROUTES.get_all, fault)
    ELSE LET result == get_all_rows(st, t, p)
         IN Closed(Respond(st, ROUTES.get_all, Listing(result, Len(result)), 200))

get_sensor_by_id(st, t, p, fault) ==
    IF ReadRaises(fault)
    THEN ViewFailed(st, ROUTES.get_by_id, fault)
    ELSE LET result == get_by_id_rows(st, t, p)
         IN Closed(Respond(st, ROUTES.get_by_id, Listing(result, Len(result)), 200))

create_sensor_data(st, t, p, fault) ==
    IF GetJsonRaises(p)
    THEN Respond(st, ROUTES.create, Err(ExcText), 500)
    ELSE IF ~Truthy(p)
    THEN Respond(st, ROUTES.create, Err("No data provided"), 400)
    ELSE IF ~IsDict(p)
    THEN Respond(st, ROUTES.create, Err(ExcText), 500)
    ELSE IF p.sensor_id = None
    THEN Respond(st, ROUTES.create, Err("sensor_id is required"), 400)
    ELSE IF StoreFails(fault)
    THEN ViewFailed(st, ROUTES.create, fault)
    ELSE LET tm  == IF p.time # None THEN p.time ELSE t
             ins == StoreInsert(st, MkRow(tm, p.sensor_id, p.temperature, p.humidity))
         IN IF ~ins.ok
            THEN Opened(Respond(st, ROUTES.create,
                                Err("Duplicate entry for this time and sensor_id"), 409))
            ELSE Finish(fault, ROUTES.create,
                        Closed(Respond(ins.store, ROUTES.create,
                                Data("", "Sensor data created successfully",
                                     MkRow(tm, p.sensor_id, p.temperature, p.humidity),
                                     None), 201)))

create_bulk_sensor_data(st, t, p, fault) ==
    IF GetJsonRaises(p)
    THEN Respond(st, ROUTES.create_bulk, Err(ExcText), 500)
    ELSE IF ~Truthy(p) \/ ~IsList(p)
    THEN Respond(st, ROUTES.create_bulk, Err("Expected a list of sensor data"), 400)
    ELSE IF StoreFails(fault)
    THEN ViewFailed(st, ROUTES.create_bulk, fault)
    ELSE LET run == BulkLoop(st, t, p.entries, 1, 0) IN
         IF ~run.ok
         THEN Opened(Respond(Abandoned(st, run), ROUTES.create_bulk, Err(ExcText), 500))
         ELSE Finish(fault, ROUTES.create_bulk,
                     Closed(Respond(run.store, ROUTES.create_bulk,
                             Data("", "records inserted successfully", NoRow, run.count),
                             201)))

update_sensor_data(st, t, p, fault) ==
    IF GetJsonRaises(p)
    THEN Respond(st, ROUTES.update, Err(ExcText), 500)
    ELSE IF ~Truthy(p)
    THEN Respond(st, ROUTES.update, Err("No data provided"), 400)
    ELSE IF ~IsDict(p)
    THEN Respond(st, ROUTES.update, Err(ExcText), 500)
    ELSE IF p.time = None \/ p.sensor_id = None
    THEN Respond(st, ROUTES.update,
                 Err("time and sensor_id are required to identify the record"), 400)
    ELSE IF StoreFails(fault)
    THEN ViewFailed(st, ROUTES.update, fault)
    ELSE LET hit == Matching(st, p.time, p.sensor_id) IN
         IF hit = {}
         THEN Closed(Respond(st, ROUTES.update, Err("Record not found"), 404))
         ELSE LET new == StoreUpdate(st, p.time, p.sensor_id, p.temperature, p.humidity)
                  row == CHOOSE r \in Matching(new, p.time, p.sensor_id) : TRUE
              IN Finish(fault, ROUTES.update,
                        Closed(Respond(new, ROUTES.update,
                                Data("", "Sensor data updated successfully", row, None),
                                200)))

\* `p` holds the query arguments: time, and sensor_id converted with type=int.
delete_sensor_data(st, t, p, fault) ==
    IF p.time = None \/ p.sensor_id = None
    THEN Respond(st, ROUTES.delete,
                 Err("time and sensor_id query parameters are required"), 400)
    ELSE IF StoreFails(fault)
    THEN ViewFailed(st, ROUTES.delete, fault)
    ELSE LET hit == Matching(st, p.time, p.sensor_id) IN
         IF Cardinality(hit) = 0
         THEN Closed(Respond(st, ROUTES.delete, Err("Record not found"), 404))
         ELSE Finish(fault, ROUTES.delete,
                     Closed(Respond(st \ hit, ROUTES.delete,
                             Data("", "Sensor data deleted successfully", NoRow,
                                  Cardinality(hit)), 200)))

\* `p.sensor_id` is the <int:sensor_id> of the path.
delete_all_sensor_data_by_id(st, t, p, fault) ==
    IF StoreFails(fault)
    THEN ViewFailed(st, ROUTES.delete_by_id, fault)
    ELSE LET hit == OfSensor(st, p.sensor_id) IN
         Finish(fault, ROUTES.delete_by_id,
                Closed(Respond(st \ hit, ROUTES.delete_by_id,
                        Data("", "Deleted records for sensor", NoRow, Cardinality(hit)),
                        200)))

get_sensor_stats(st, t, p, fault) ==
    IF ReadRaises(fault)
    THEN ViewFailed(st, ROUTES.stats, fault)
    ELSE LET result == StatsOf(Fetched(st, t, p.sensor_id, HoursOf(p)))
         IN Closed(Respond(st, ROUTES.stats, Listing(result, None), 200))

get_time_bucket_data(st, t, p, fault) ==
    LET q == BucketQuery(BucketOf(p)) IN
    IF ReadRaises(fault) \/ QueryRaises(q)
    THEN ViewFailed(st, ROUTES.time_bucket, fault)
    ELSE LET result == BucketsOf(Fetched(st, t, p.sensor_id, HoursOf(p)), q.width)
             run    == [store |-> Executed(st, q)]
         IN Closed(Respond(Abandoned(st, run), ROUTES.time_bucket,
                           Listing(result, None), 200))

\* Flask's routing table: the view function bound to a route.
View(route, st, t, p, fault) ==
    CASE route = ROUTES.health       -> health_check(st, t, p, fault)
      [] route = ROUTES.get_all      -> get_all_sensor_data(st, t, p, fault)
      [] route = ROUTES.get_by_id    -> get_sensor_by_id(st, t, p, fault)
      [] route = ROUTES.create       -> create_sensor_data(st, t, p, fault)
      [] route = ROUTES.create_bulk  -> create_bulk_sensor_data(st, t, p, fault)
      [] route = ROUTES.update       -> update_sensor_data(st, t, p, fault)
      [] route = ROUTES.delete       -> delete_sensor_data(st, t, p, fault)
      [] route = ROUTES.delete_by_id -> delete_all_sensor_data_by_id(st, t, p, fault)
      [] route = ROUTES.stats        -> get_sensor_stats(st, t, p, fault)
      [] route = ROUTES.time_bucket  -> get_time_bucket_data(st, t, p, fault)

(* ------------------------------ dispatch ------------------------------ *)

\* The table with two of its entries exchanged.
handlers_exchanged(topic) ==
    CASE topic = TOPICS.health_request       -> "handle_health_check"
      [] topic = TOPICS.get_all_request      -> "handle_get_all_sensors"
      [] topic = TOPICS.get_by_id_request    -> "handle_get_sensor_by_id"
      [] topic = TOPICS.create_request       -> "handle_create_sensor"
      [] topic = TOPICS.create_bulk_request  -> "handle_create_bulk_sensors"
      [] topic = TOPICS.update_request       -> "handle_update_sensor"
      [] topic = TOPICS.delete_request       -> "handle_delete_sensor_by_id"
      [] topic = TOPICS.delete_by_id_request -> "handle_delete_sensor"
      [] topic = TOPICS.stats_request        -> "handle_get_stats"
      [] topic = TOPICS.time_bucket_request  -> "handle_time_bucket"
      [] OTHER                               -> "none"

\* The `handlers` table of on_message: the handler bound to a topic
\* ("none" for handlers.get(topic) = None).
handlers(topic) ==
    CASE topic = TOPICS.health_request       -> "handle_health_check"
      [] topic = TOPICS.get_all_request      -> "handle_get_all_sensors"
      [] topic = TOPICS.get_by_id_request    -> "handle_get_sensor_by_id"
      [] topic = TOPICS.create_request       -> "handle_create_sensor"
      [] topic = TOPICS.create_bulk_request  -> "handle_create_bulk_sensors"
      [] topic = TOPICS.update_request       -> "handle_update_sensor"
      [] topic = TOPICS.delete_request       -> "handle_delete_sensor"
      [] topic = TOPICS.delete_by_id_request -> "handle_delete_sensor_by_id"
      [] topic = TOPICS.stats_request        -> "handle_get_stats"
      [] topic = TOPICS.time_bucket_request  -> "handle_time_bucket"
      [] OTHER                               -> "none"

\* handler(client, payload)
Call(handler, st, t, p, fault) ==
    CASE handler = "handle_health_check"        -> handle_health_check(st, t, p, fault)
      [] handler = "handle_get_all_sensors"     -> handle_get_all_sensors(st, t, p, fault)
      [] handler = "handle_get_sensor_by_id"    -> handle_get_sensor_by_id(st, t, p, fault)
      [] handler = "handle_create_sensor"       -> handle_create_sensor(st, t, p, fault)
      [] handler = "handle_create_bulk_sensors" -> handle_create_bulk_sensors(st, t, p, fault)
      [] handler = "handle_update_sensor"       -> handle_update_sensor(st, t, p, fault)
      [] handler = "handle_delete_sensor"       -> handle_delete_sensor(st, t, p, fault)
      [] handler = "handle_delete_sensor_by_id" -> handle_delete_sensor_by_id(st, t, p, fault)
      [] handler = "handle_get_stats"           -> handle_get_stats(st, t, p, fault)
      [] handler = "handle_time_bucket"         -> handle_time_bucket(st, t, p, fault)

\* msg.payload.decode('utf-8') raises UnicodeDecodeError.
DecodeRaises(p) == p.kind = "badutf8"

\* on_message(client, userdata, msg): what it leaves, and whether an
\* exception escapes it.
on_message(st, t, topic, p, fault) ==
    IF DecodeRaises(p)
    THEN [raised |-> TRUE, store |-> st, resp |-> <<>>, opened |-> 0, closed |-> 0]
    ELSE LET handler == handlers(topic) IN
         IF handler # "none"
         THEN LET r == Call(handler, st, t, p, fault)
              IN [raised |-> FALSE, store |-> r.store, resp |-> r.resp,
                  opened |-> r.opened, closed |-> r.closed]
         ELSE [raised |-> FALSE, store |-> st, resp |-> <<>>, opened |-> 0, closed |-> 0]

(* ------------------------------ requests ------------------------------ *)

NonObj == Entry(FALSE, None, None, None, None)

\* The payloads every topic is tried with, whatever it expects.
AnyPayloads ==
    {Bare(k) : k \in {"empty", "badutf8", "badjson", "null", "scalar",
                      "emptyobj", "emptylist"}}
    \cup {List(<<NonObj>>), Obj(None, None, None, None)}

ReadingPayloads ==
    {Obj(s, tm, te, hu) : s \in Opt(SensorIds), tm \in Opt(GivenTimes),
                          te \in Opt(Temps), hu \in Opt(Hums)}

KeyPayloads == {Obj(s, tm, None, None) : s \in Opt(SensorIds), tm \in Opt(GivenTimes)}

SensorPayloads == {Obj(s, None, None, None) : s \in Opt(SensorIds)}

\* The `hours` a read is asked for, besides the default.
Hours == {1}

QueryPayloads == {Query(s, h) : s \in Opt(SensorIds), h \in Opt(Hours)}

\* The `bucket` a TimeBucket is asked for, besides the default: a width, and
\* texts that are more than a width.
Buckets == {"15 minutes", StackedBucket, CallingBucket}

BucketPayloads == {Bucketed(s, b) : s \in {None, 1}, b \in Buckets}

\* The `limit` a GetAll is asked for, besides the default.
Limits == {1}

LimitPayloads == {Limited(s, l) : s \in Opt(SensorIds), l \in Limits}

ReadTopics ==
    {TOPICS.get_all_request, TOPICS.get_by_id_request, TOPICS.stats_request,
     TOPICS.time_bucket_request}

\* The entries of a CreateBulk list: one without sensor_id, one for sensor 0
\* without `time`, those for sensor 1 with any `time` or none, and one that
\* is no object.
BulkEntries ==
    {Entry(TRUE, None, None, 255, 450), Entry(TRUE, 0, None, 255, 450)}
    \cup {Entry(TRUE, 1, tm, 255, 450) : tm \in Opt(GivenTimes)}
    \cup {NonObj}

BulkPayloads ==
    {List(es) : es \in UNION {[1..k -> BulkEntries] : k \in 1..MaxBatch}}

\* Topics a message may arrive on: the ten request topics, and topics bound
\* to no handler.
UnboundTopics == {MQTT_TOPIC, TOPICS.create_response}

PayloadsFor(topic) ==
    AnyPayloads \cup
    CASE topic \in {TOPICS.create_request, TOPICS.update_request} -> ReadingPayloads
      [] topic = TOPICS.delete_request                            -> KeyPayloads
      [] topic = TOPICS.create_bulk_request                       -> BulkPayloads
      [] topic \in UnboundTopics                                  -> {}
      [] topic = TOPICS.get_all_request                           ->
             QueryPayloads \cup LimitPayloads
      [] topic = TOPICS.time_bucket_request                       ->
             QueryPayloads \cup BucketPayloads
      [] topic \in ReadTopics                                     -> QueryPayloads
      [] OTHER                                                    -> SensorPayloads

Msg(transport, topic, payload) ==
    [transport |-> transport, topic |-> topic, payload |-> payload]

NoMsg == Msg("none", "", Bare("empty"))

MqttMessages ==
    {Msg("mqtt", tp, p) : tp \in RequestTopics \cup UnboundTopics, p \in AnyPayloads}
    \cup UNION {{Msg("mqtt", tp, p) : p \in PayloadsFor(tp)} : tp \in RequestTopics}

\* The messages the bridge is tried with: every topic and every kind of
\* payload; a reading carries the test client's values (25.5, 45.0) or none.
BridgeMessages ==
    {m \in MqttMessages :
        \/ m.payload.temperature = None /\ m.payload.humidity = None
        \/ m.payload.temperature = 255 /\ m.payload.humidity = 450}

WriteTopics ==
    {TOPICS.create_request, TOPICS.create_bulk_request, TOPICS.update_request,
     TOPICS.delete_request, TOPICS.delete_by_id_request}

\* The messages on the topics that write, with payloads on_message decodes.
WriteMessages ==
    {m \in MqttMessages : m.topic \in WriteTopics /\ m.payload.kind # "badutf8"}

\* The messages on the topics that read (and the health check), with
\* payloads on_message decodes.
ReadMessages ==
    {m \in MqttMessages : /\ m.topic \in ReadTopics \cup {TOPICS.health_request}
                          /\ m.payload.kind # "badutf8"}

StoreMessages == WriteMessages \cup ReadMessages

BodiesFor(route) ==
    CASE route \in {ROUTES.create, ROUTES.update} -> AnyPayloads \cup ReadingPayloads
      [] route = ROUTES.create_bulk               -> AnyPayloads \cup BulkPayloads
      [] route = ROUTES.delete                    -> KeyPayloads
      [] route = ROUTES.delete_by_id              ->
             {Obj(s, None, None, None) : s \in SensorIds}
      [] route = ROUTES.health                    -> {Bare("emptyobj")}
      [] route = ROUTES.get_by_id                 ->
             {Query(s, h) : s \in SensorIds, h \in Opt(Hours)}
      [] route = ROUTES.get_all                   ->
             QueryPayloads \cup LimitPayloads \cup {Bare("emptyobj")}
      [] route = ROUTES.time_bucket               ->
             QueryPayloads \cup BucketPayloads \cup {Bare("emptyobj")}
      [] OTHER                                    -> QueryPayloads \cup {Bare("emptyobj")}

HttpRequests == UNION {{Msg("http", rt, p) : p \in BodiesFor(rt)} : rt \in HttpRoutes}

(* ------------------------------- state -------------------------------- *)

VARIABLES
    store,      \* the rows of sensor_data
    now,        \* the clock
    proc,       \* the mqtt_app process: "running" or "terminated"
    bridge,     \* the broker session of the MQTT thread
    subs,       \* the topics the session is subscribed to
    stopCause,  \* why the MQTT thread ended, once it has
    active,     \* on_message invocations in progress
    pc,         \* where the request in flight is
    cur,        \* the request in flight
    flt,        \* what the store did to its handler
    pre,        \* the store when its handler started
    resp,       \* the envelopes its handler published or returned
    conn,       \* the store connections its handler opened, and closed
    race,       \* the handlers that run at the same time on the store
    log         \* per topic pair: the requests received, the envelopes published

vars == <<store, now, proc, bridge, subs, stopCause, active, pc, cur, flt, pre, resp, conn,
          race, log>>

\* The handlers that can run at the same time: the view of an HTTP request
\* and the on_message of a bridge, or those of two bridges.
Workers == {1, 2}

\* A handler that has not started.
Idle == [pc |-> "idle", req |-> NoMsg, snap |-> {}, written |-> {}, answer |-> <<>>]

NoConn == [opened |-> 0, closed |-> 0]

\* Nothing received and nothing published yet.  `rcv` counts the messages
\* on_message was called with on each request topic, `idx` is the count that
\* the message in flight took, and `pub` lists, for each response topic, the
\* envelopes client.publish was given, each by the request topic and the count
\* of the message whose handler published it.
Quiet == [rcv |-> [tp \in RequestTopics |-> 0],
          idx |-> 0,
          pub |-> [tp \in ResponseTopics |-> <<>>]]

BridgeStates == {"Disconnected", "Connecting", "Refused", "Subscribed", "Stopped"}

TypeOK ==
    /\ store \subseteq Rows
    /\ now \in Times
    /\ proc \in {"running", "terminated"}
    /\ bridge \in BridgeStates
    /\ subs \subseteq RequestTopics \cup ResponseTopics
    /\ stopCause \in {"none", "connect_failed", "on_disconnect", "on_message"}
    /\ active \in 0..2
    /\ pc \in {"idle", "callback", "returned", "view", "responded"}
    /\ flt \in Faults
    /\ pre \subseteq Rows
    /\ Len(resp) <= 2
    /\ conn \in [opened : 0..1, closed : 0..1]
    /\ \A w \in Workers :
          /\ race[w].pc \in {"idle", "connected", "executed", "committed",
                              "failed", "done"}
          /\ race[w].snap \subseteq Rows
          /\ race[w].written \subseteq Rows
          /\ Len(race[w].answer) <= 1
    /\ DOMAIN log.rcv = RequestTopics
    /\ DOMAIN log.pub = ResponseTopics

Init ==
    /\ store = {}
    /\ now = 1
    /\ proc = "running"
    /\ bridge = "Disconnected"
    /\ subs = {}
    /\ stopCause = "none"
    /\ active = 0
    /\ pc = "idle"
    /\ cur = NoMsg
    /\ flt = "ok"
    /\ pre = {}
    /\ resp = <<>>
    /\ conn = NoConn
    /\ race = [w \in Workers |-> Idle]
    /\ log = Quiet

(* ------------------------- the bridge's session ----------------------- *)

\* The positional arguments paho passes to on_disconnect under
\* CallbackAPIVersion.VERSION2: client, userdata, disconnect_flags,
\* reason_code, properties.
DisconnectCallbackArgs == 5

\* The positional parameters on_disconnect accepts: client, userdata, rc,
\* properties.
OnDisconnectParams == 4

\* Calling on_disconnect raises TypeError.
on_disconnect_raises == DisconnectCallbackArgs > OnDisconnectParams

\* CONNACK return codes: accepted, and refused (not authorised).
ReturnCodes == {0, 5}

\* on_connect without its `if 'request' in topic_name`: it subscribes to every
\* topic of TOPICS.
on_connect_all(held, rc) ==
    IF rc = 0 THEN held \cup RequestTopics \cup ResponseTopics ELSE held

\* on_connect(client, userdata, flags, rc, properties): the subscriptions
\* after it.
on_connect(held, rc) == IF rc = 0 THEN held \cup RequestTopics ELSE held

\* A loop that hands each message to a thread of its own and reads on.
CanDispatch_threaded == TRUE

\* The network loop invokes a callback only when none is running: callbacks
\* run on the loop's own thread, and on_message calls its handler directly.
CanDispatch == active = 0

\* start_mqtt_client: client.connect(...).  An unreachable broker raises, the
\* except clause logs it and the thread ends.
Connect ==
    /\ proc = "running"
    /\ bridge = "Disconnected"
    /\ \E reachable \in BOOLEAN :
          IF reachable
          THEN bridge' = "Connecting" /\ UNCHANGED stopCause
          ELSE bridge' = "Stopped" /\ stopCause' = "connect_failed"
    /\ UNCHANGED <<store, now, proc, subs, active, pc, cur, flt, pre, resp, conn, race, log>>

\* loop_forever reads the CONNACK and calls on_connect.
OnConnect ==
    /\ proc = "running"
    /\ bridge = "Connecting"
    /\ \E rc \in ReturnCodes :
          /\ subs' = on_connect(subs, rc)
          /\ bridge' = IF rc = 0 THEN "Subscribed" ELSE "Refused"
    /\ UNCHANGED <<store, now, proc, stopCause, active, pc, cur, flt, pre, resp, conn, race, log>>

\* The connection is lost (or closed by the broker after a refusal): the loop
\* calls on_disconnect.  An exception raised by a callback leaves
\* loop_forever and ends the thread in start_mqtt_client's except clause;
\* otherwise loop_forever reconnects.
ConnectionLost ==
    /\ proc = "running"
    /\ bridge \in {"Connecting", "Refused", "Subscribed"}
    /\ active = 0
    /\ pc = "idle"
    /\ subs' = {}
    /\ IF on_disconnect_raises
       THEN bridge' = "Stopped" /\ stopCause' = "on_disconnect"
       ELSE bridge' = "Connecting" /\ UNCHANGED stopCause
    /\ UNCHANGED <<store, now, proc, active, pc, cur, flt, pre, resp, conn, race, log>>

\* SIGINT ends app.run and with it the process; the MQTT thread is a daemon
\* thread and is not joined.
Shutdown ==
    /\ proc = "running"
    /\ pc = "idle"
    /\ proc' = "terminated"
    /\ UNCHANGED <<store, now, bridge, subs, stopCause, active, pc, cur, flt, pre, resp, conn, race, log>>

Tick ==
    /\ pc = "idle"
    /\ now < MaxTime
    /\ now' = now + 1
    /\ UNCHANGED <<store, proc, bridge, subs, stopCause, active, pc, cur, flt, pre, resp, conn, race, log>>

(* ------------------------- handling a message ------------------------- *)

\* A handler meets a fault only if it reaches the store: a fault that changes
\* nothing of what the handler does was not met, and is recorded as "ok".
Met(fault, r, rOk) == fault = "ok" \/ r # rOk

\* The loop reads a PUBLISH and calls on_message with it.
Dispatch(inbound) ==
    /\ proc = "running"
    /\ bridge = "Subscribed"
    /\ pc \in {"idle", "callback"}
    /\ CanDispatch
    /\ \E m \in inbound : cur' = m
    /\ active' = active + 1
    /\ pc' = "callback"
    /\ UNCHANGED <<store, now, proc, bridge, subs, stopCause, flt, pre, resp, conn, race>>

Receive(inbound) == Dispatch(inbound) /\ UNCHANGED log

\* on_message runs to its end: decode, dispatch, the handler's transaction
\* and its publish.
Callback ==
    /\ proc = "running"
    /\ pc = "callback"
    /\ \E fault \in Faults :
          LET r == on_message(store, now, cur.topic, cur.payload, fault) IN
          /\ Met(fault, r, on_message(store, now, cur.topic, cur.payload, "ok"))
          /\ Cardinality(r.store) <= MaxRows
          /\ store' = r.store
          /\ resp' = r.resp
          /\ conn' = [opened |-> r.opened, closed |-> r.closed]
          /\ flt' = fault
          /\ IF r.raised
             THEN bridge' = "Stopped" /\ stopCause' = "on_message"
             ELSE UNCHANGED <<bridge, stopCause>>
    /\ pre' = store
    /\ active' = active - 1
    /\ pc' = "returned"
    /\ UNCHANGED <<now, proc, subs, cur, race>>

OnMessage == Callback /\ UNCHANGED log

\* A request reaches the HTTP binding.
HttpRequest ==
    /\ pc = "idle"
    /\ \E r \in HttpRequests : cur' = r
    /\ pc' = "view"
    /\ UNCHANGED <<store, now, proc, bridge, subs, stopCause, active, flt, pre, resp, conn, race, log>>

\* Its view function runs to its end.
HttpView ==
    /\ pc = "view"
    /\ \E fault \in Faults :
          LET r == View(cur.topic, store, now, cur.payload, fault) IN
          /\ Met(fault, r, View(cur.topic, store, now, cur.payload, "ok"))
          /\ Cardinality(r.store) <= MaxRows
          /\ store' = r.store
          /\ resp' = r.resp
          /\ conn' = [opened |-> r.opened, closed |-> r.closed]
          /\ flt' = fault
    /\ pre' = store
    /\ pc' = "responded"
    /\ UNCHANGED <<now, proc, bridge, subs, stopCause, active, cur, race, log>>

\* The callback returns to the loop, or the response leaves the server.
Return ==
    /\ pc \in {"returned", "responded"}
    /\ pc' = "idle"
    /\ cur' = NoMsg
    /\ flt' = "ok"
    /\ pre' = {}
    /\ resp' = <<>>
    /\ conn' = NoConn
    /\ UNCHANGED <<store, now, proc, bridge, subs, stopCause, active, race, log>>

\* The bridge: its session, and the messages it handles.
Next ==
    \/ Connect
    \/ OnConnect
    \/ ConnectionLost
    \/ Shutdown
    \/ Tick
    \/ Receive(BridgeMessages)
    \/ OnMessage
    \/ Return

Spec == Init /\ [][Next]_vars

\* Both transports on one store: a subscribed bridge handling the requests
\* that write, and the HTTP binding.
InitStore ==
    /\ store = {}
    /\ now = 1
    /\ proc = "running"
    /\ bridge = "Subscribed"
    /\ subs = RequestTopics
    /\ stopCause = "none"
    /\ active = 0
    /\ pc = "idle"
    /\ cur = NoMsg
    /\ flt = "ok"
    /\ pre = {}
    /\ resp = <<>>
    /\ conn = NoConn
    /\ race = [w \in Workers |-> Idle]
    /\ log = Quiet

NextStore ==
    \/ Tick
    \/ Receive(StoreMessages)
    \/ OnMessage
    \/ HttpRequest
    \/ HttpView
    \/ Return

SpecStore == InitStore /\ [][NextStore]_vars

(* ---------------------- the order of the responses -------------------- *)
(* The bridge with a record of its traffic: each message on_message is      *)
(* called with takes the next count of its topic, and each envelope given   *)
(* to client.publish is appended to the list of the topic it is published   *)
(* on.  client.publish queues the packets in the order of the calls.        *)

\* The messages the order is followed over: every topic, with no payload,
\* {}, bytes that are not UTF-8, and the test client's Create.
OrderMessages ==
    {Msg("mqtt", tp, Bare(k)) : tp \in RequestTopics \cup UnboundTopics,
                                k \in {"empty", "emptyobj", "badutf8"}}
    \cup {Msg("mqtt", TOPICS.create_request, Obj(1, None, 255, 450))}

\* The messages received so far.
RECURSIVE Total(_, _)
Total(count, topics) ==
    IF topics = {} THEN 0
    ELSE LET tp == CHOOSE tp \in topics : TRUE
         IN count[tp] + Total(count, topics \ {tp})

\* on_message is called with msg: the message takes the next count of its
\* topic.
Noted(l, m) ==
    IF m.topic \in RequestTopics
    THEN [l EXCEPT !.rcv[m.topic] = @ + 1, !.idx = l.rcv[m.topic] + 1]
    ELSE [l EXCEPT !.idx = 0]

\* client.publish(topic, ...) for each envelope of `envs`, called while
\* handling the message `m`.
RECURSIVE Published(_, _, _)
Published(l, m, envs) ==
    IF envs = <<>> THEN l
    ELSE Published([l EXCEPT !.pub[Head(envs).topic] =
                                 Append(@, [from |-> m.topic, k |-> l.idx])],
                   m, Tail(envs))

ReceiveLogged ==
    /\ Total(log.rcv, RequestTopics) < MaxLog
    /\ Dispatch(OrderMessages)
    /\ log' = Noted(log, cur')

OnMessageLogged ==
    /\ Callback
    /\ log' = Published(log, cur, resp')

NextOrder ==
    \/ Tick
    \/ ConnectionLost
    \/ ReceiveLogged
    \/ OnMessageLogged
    \/ Return

SpecOrder == InitStore /\ [][NextOrder]_vars

(* ------------------- handlers running at the same time --------------- *)
(* The view of an HTTP request and the on_message of a bridge (or of two    *)
(* bridges) each work on a connection, and so a transaction, of their own:  *)
(* get_db_connection(), one statement, conn.commit(), the answer.  The      *)
(* statements and commits of two handlers interleave in any order.          *)

\* The Creates and Updates that race: for sensor 1, with an explicit time; an
\* Update supplies the temperature only or the humidity only.
RaceCreates == {Obj(1, tm, te, hu) : tm \in GivenTimes, te \in Temps, hu \in Hums}

RaceUpdates ==
    {Obj(1, tm, 255, None) : tm \in GivenTimes} \cup {Obj(1, tm, None, 450) : tm \in GivenTimes}

RaceRequests ==
    {Msg("mqtt", TOPICS.create_request, p) : p \in RaceCreates}
    \cup {Msg("http", ROUTES.create, p) : p \in RaceCreates}
    \cup {Msg("mqtt", TOPICS.update_request, p) : p \in RaceUpdates}
    \cup {Msg("http", ROUTES.update, p) : p \in RaceUpdates}

IsCreate(m) == m.topic \in {TOPICS.create_request, ROUTES.create}

IsUpdate(m) == m.topic \in {TOPICS.update_request, ROUTES.update}

\* What the handler of request m does on the table st.
RaceRun(m, st) ==
    IF m.transport = "mqtt"
    THEN Call(handlers(m.topic), st, now, m.payload, "ok")
    ELSE View(m.topic, st, now, m.payload, "ok")

\* A handler that reads the table when it starts and writes back later.
Visible_at_start(w) == race[w].snap

\* The table the statement of handler w works on: the handler reads nothing
\* before its INSERT or UPDATE, and the statement reads the rows as they are
\* committed when it runs.
Visible(w) == store

\* The statement of handler w waits: another transaction has written the
\* same (time, sensor_id) and not yet committed.  (An UPDATE does not see,
\* and does not wait for, a row inserted and not yet committed.)
Blocked(w) ==
    \E v \in Workers \ {w} :
        /\ race[v].pc = "executed"
        /\ race[v].req.payload.time = race[w].req.payload.time
        /\ race[v].req.payload.sensor_id = race[w].req.payload.sensor_id
        /\ ~(IsUpdate(race[w].req) /\ IsCreate(race[v].req))

\* A request reaches a handler: it validates and calls get_db_connection().
RaceBegin(w) ==
    /\ race[w].pc = "idle"
    /\ \E m \in RaceRequests :
          race' = [race EXCEPT ![w] = [Idle EXCEPT !.pc = "connected", !.req = m,
                                                   !.snap = store]]
    /\ UNCHANGED <<store, now, proc, bridge, subs, stopCause, active, pc, cur, flt, pre,
                   resp, conn, log>>

\* cursor.execute(query, ...): the INSERT or UPDATE of the handler.  A
\* duplicate key or a missing row ends the handler without a commit.
RaceExecute(w) ==
    /\ race[w].pc = "connected"
    /\ ~Blocked(w)
    /\ LET m == race[w].req
           r == RaceRun(m, Visible(w))
       IN race' = [race EXCEPT
                     ![w].pc = IF r.resp[1].status_code \in {200, 201}
                               THEN "executed" ELSE "failed",
                     ![w].written = IF r.resp[1].status_code \in {200, 201}
                                    THEN Matching(r.store, m.payload.time,
                                                  m.payload.sensor_id)
                                    ELSE {},
                     ![w].answer = r.resp]
    /\ UNCHANGED <<store, now, proc, bridge, subs, stopCause, active, pc, cur, flt, pre,
                   resp, conn, log>>

\* conn.commit(): the row the statement wrote takes its place in the table.
RaceCommit(w) ==
    /\ race[w].pc = "executed"
    /\ store' = (store \ Matching(store, race[w].req.payload.time,
                                   race[w].req.payload.sensor_id))
                    \cup race[w].written
    /\ race' = [race EXCEPT ![w].pc = "committed"]
    /\ UNCHANGED <<now, proc, bridge, subs, stopCause, active, pc, cur, flt, pre,
                   resp, conn, log>>

\* publish_response / return jsonify: the handler answers.
RaceRespond(w) ==
    /\ race[w].pc \in {"committed", "failed"}
    /\ race' = [race EXCEPT ![w].pc = "done"]
    /\ UNCHANGED <<store, now, proc, bridge, subs, stopCause, active, pc, cur, flt, pre,
                   resp, conn, log>>

\* The table two racing handlers start on: empty, or one reading of sensor 1.
RaceStores == {{}} \cup {{MkRow(tm, 1, 235, None)} : tm \in GivenTimes}

InitRace ==
    /\ store \in RaceStores
    /\ pre = store
    /\ now = 1
    /\ proc = "running"
    /\ bridge = "Subscribed"
    /\ subs = RequestTopics
    /\ stopCause = "none"
    /\ active = 0
    /\ pc = "idle"
    /\ cur = NoMsg
    /\ flt = "ok"
    /\ resp = <<>>
    /\ conn = NoConn
    /\ race = [w \in Workers |-> Idle]
    /\ log = Quiet

NextRace ==
    \E w \in Workers :
        \/ RaceBegin(w)
        \/ RaceExecute(w)
        \/ RaceCommit(w)
        \/ RaceRespond(w)

SpecRace == InitRace /\ [][NextRace]_vars

(* ------------------------------- claims ------------------------------- *)

\* The response topic paired with a request topic: sensors/X/response for
\* sensors/X/request.
PairedResponse(topic) ==
    CASE topic = TOPICS.health_request       -> TOPICS.health_response
      [] topic = TOPICS.get_all_request      -> TOPICS.get_all_response
      [] topic = TOPICS.get_by_id_request    -> TOPICS.get_by_id_response
      [] topic = TOPICS.create_request       -> TOPICS.create_response
      [] topic = TOPICS.create_bulk_request  -> TOPICS.create_bulk_response
      [] topic = TOPICS.update_request       -> TOPICS.update_response
      [] topic = TOPICS.delete_request       -> TOPICS.delete_response
      [] topic = TOPICS.delete_by_id_request -> TOPICS.delete_by_id_response
      [] topic = TOPICS.stats_request        -> TOPICS.stats_response
      [] topic = TOPICS.time_bucket_request  -> TOPICS.time_bucket_response

\* on_message has run to its end on the message in `cur`.
Handled == pc = "returned" /\ cur.transport = "mqtt"

\* C1: every message received on a bound request topic, whatever its payload
\* and whatever the store does, is answered by exactly one published
\* envelope.  (Payload bytes that are not UTF-8 are answered by none.)
C1_ExactlyOneResponse ==
    (Handled /\ cur.topic \in RequestTopics) => Len(resp) = 1

\* The test client's Create: {sensor_id: 1, temperature: 25.5, humidity: 45.0}.
TestCreate == Msg("mqtt", TOPICS.create_request, Obj(1, None, 255, 450))

StatusCodes == {200, 201, 400, 404, 409, 500}

\* C2: every envelope published while handling a message on sensors/X/request
\* is published on sensors/X/response, with a status code of the taxonomy; the
\* test client's Create, inserted by a reachable store, yields one 201 on
\* sensors/create/response carrying sensor_id 1, and {} on the same topic
\* yields a 400.
C2_ResponsesOnPairedTopic ==
    (Handled /\ cur.topic \in RequestTopics) =>
        /\ \A i \in 1..Len(resp) :
              /\ resp[i].topic = PairedResponse(cur.topic)
              /\ resp[i].status_code \in StatusCodes
        /\ (cur = TestCreate /\ flt = "ok" /\ ~KeyExists(pre, now, 1)) =>
              /\ Len(resp) = 1
              /\ resp[1].status_code = 201
              /\ resp[1].data.row.sensor_id = 1
              /\ resp[1].data.row.temperature = 255
              /\ resp[1].data.row.humidity = 450
        /\ cur = Msg("mqtt", TOPICS.create_request, Bare("emptyobj")) =>
              /\ Len(resp) = 1
              /\ resp[1].status_code = 400

C2_Witness ==
    /\ Handled
    /\ cur = TestCreate
    /\ Len(resp) = 1
    /\ resp[1].topic = TOPICS.create_response
    /\ resp[1].status_code = 201

\* C3: handling an unsolicited disconnect never ends the bridge: it goes back
\* to Connecting.  (on_disconnect is called with more arguments than it
\* accepts; the TypeError ends the MQTT thread.)
C3_DisconnectReturnsToConnecting ==
    [][(bridge = "Subscribed" /\ pc = "idle" /\ bridge' # bridge)
          => bridge' = "Connecting"]_vars

\* C4: no broker-level failure (an unreachable broker at the first connect, a
\* lost session later) ends the bridge's session loop.
C4_BrokerFailureNeverStopsBridge ==
    bridge = "Stopped" => stopCause \notin {"connect_failed", "on_disconnect"}

\* C5: the process never reaches its terminal state while the bridge's
\* session is still connected and subscribed.
C5_DrainsBeforeTerminating ==
    proc = "terminated" => ~(bridge = "Subscribed" /\ subs # {})

\* C6: at no time are two handlers active in the bridge: a message is handed
\* to on_message only when no invocation is in progress, and that invocation
\* is over when on_message has run to its end.
C6_NoOverlappingHandlers ==
    /\ active <= 1
    /\ pc = "callback" => active = 1
    /\ pc \in {"idle", "returned"} => active = 0

C6_Witness == pc = "callback" /\ active = 1 /\ bridge = "Subscribed"

\* C7: a message on a topic bound to no handler produces no response on any
\* topic, changes nothing in the store and leaves the bridge Subscribed.
C7_UnboundTopicDropped ==
    (Handled /\ cur.topic \notin RequestTopics) =>
        /\ resp = <<>>
        /\ store = pre
        /\ bridge = "Subscribed"

\* A handler of either transport has run to its end on the request in `cur`.
Served == pc \in {"returned", "responded"}

InsertOps ==
    {TOPICS.create_request, TOPICS.create_bulk_request, ROUTES.create, ROUTES.create_bulk}

\* C8: after any sequence of Create, CreateBulk, Update, Delete and DeleteById
\* requests through either transport the store holds at most one reading per
\* (time, sensor_id), and an insert leaves every reading that existed before
\* it exactly as it was.
C8_OneReadingPerKey ==
    /\ KeyUnique(store)
    /\ (Served /\ cur.topic \in InsertOps) => pre \subseteq store

C8_Witness ==
    /\ pc = "responded"
    /\ cur.topic = ROUTES.create_bulk
    /\ resp[1].status_code = 201
    /\ Cardinality(pre) = 1
    /\ Cardinality(store) = 2
    /\ \E r1, r2 \in store : r1.time = r2.time /\ r1.sensor_id # r2.sensor_id

\* A Create with an explicit (time, sensor_id) that the store already holds,
\* reaching a store that answers.
DuplicateCreate ==
    /\ Served
    /\ cur.topic \in {TOPICS.create_request, ROUTES.create}
    /\ cur.payload.kind = "object"
    /\ cur.payload.time # None
    /\ cur.payload.sensor_id # None
    /\ KeyExists(pre, cur.payload.time, cur.payload.sensor_id)
    /\ flt = "ok"

\* C9: a Create with an explicit (time, sensor_id) that already exists is
\* answered 409 and leaves the store, the existing row included, as it was,
\* whatever values the Create carried.
C9_DuplicateCreateIs409 ==
    DuplicateCreate =>
        /\ Len(resp) = 1
        /\ resp[1].status_code = 409
        /\ store = pre

C9_Witness ==
    /\ DuplicateCreate
    /\ cur.transport = "mqtt"
    /\ resp[1].status_code = 409
    /\ \E r \in store :
          /\ r.time = cur.payload.time
          /\ r.sensor_id = cur.payload.sensor_id
          /\ r.temperature = 235
          /\ cur.payload.temperature = 255

\* An Update naming the key of an existing reading, reaching a store that
\* answers.
UpdateOfExisting ==
    /\ Served
    /\ cur.topic \in {TOPICS.update_request, ROUTES.update}
    /\ cur.payload.kind = "object"
    /\ cur.payload.time # None
    /\ cur.payload.sensor_id # None
    /\ KeyExists(pre, cur.payload.time, cur.payload.sensor_id)
    /\ flt = "ok"

\* C10: an Update of an existing (time, sensor_id) is answered 200 and changes
\* only the supplied fields of that row: an omitted temperature or humidity
\* keeps its prior value, time and sensor_id stay, and every other row is as
\* it was.
C10_UpdateChangesOnlySupplied ==
    UpdateOfExisting =>
        \E old \in pre :
            LET new == [time        |-> old.time,
                        sensor_id   |-> old.sensor_id,
                        temperature |-> IF cur.payload.temperature # None
                                        THEN cur.payload.temperature
                                        ELSE old.temperature,
                        humidity    |-> IF cur.payload.humidity # None
                                        THEN cur.payload.humidity
                                        ELSE old.humidity]
            IN /\ old.time = cur.payload.time
               /\ old.sensor_id = cur.payload.sensor_id
               /\ store = (pre \ {old}) \cup {new}
               /\ Len(resp) = 1
               /\ resp[1].status_code = 200
               /\ resp[1].data.row = new

C10_Witness ==
    /\ UpdateOfExisting
    /\ cur.transport = "mqtt"
    /\ cur.payload.temperature = 255
    /\ cur.payload.humidity = None
    /\ Cardinality(store) = 2
    /\ \E old \in pre, new \in store :
          /\ old.time = cur.payload.time /\ old.sensor_id = cur.payload.sensor_id
          /\ new.time = old.time /\ new.sensor_id = old.sensor_id
          /\ old.temperature = 235 /\ old.humidity = 450
          /\ new.temperature = 255 /\ new.humidity = 450

\* An Update naming a (time, sensor_id) the store does not hold, reaching a
\* store that answers.
UpdateOfMissing ==
    /\ Served
    /\ cur.topic \in {TOPICS.update_request, ROUTES.update}
    /\ cur.payload.kind = "object"
    /\ cur.payload.time # None
    /\ cur.payload.sensor_id # None
    /\ ~KeyExists(pre, cur.payload.time, cur.payload.sensor_id)
    /\ flt = "ok"

\* C11: an Update whose (time, sensor_id) matches no row is answered 404 and
\* leaves the store exactly as it was: no row created, none modified.
C11_UpdateOfMissingIs404 ==
    UpdateOfMissing =>
        /\ Len(resp) = 1
        /\ resp[1].status_code = 404
        /\ store = pre

C11_Witness ==
    /\ UpdateOfMissing
    /\ OfSensor(pre, cur.payload.sensor_id) # {}
    /\ cur.payload.temperature # None
    /\ resp[1].status_code = 404

\* The (time, sensor_id) an entry is inserted under at clock t.
KeyOf(entry, t) ==
    <<IF entry.time # None THEN entry.time ELSE t, entry.sensor_id>>

\* A CreateBulk whose list holds objects only, none of them for a
\* (time, sensor_id) the store already holds, reaching a store that answers.
BulkOfObjects ==
    /\ Served
    /\ cur.topic \in {TOPICS.create_bulk_request, ROUTES.create_bulk}
    /\ cur.payload.kind = "list"
    /\ \A i \in 1..Len(cur.payload.entries) :
          /\ cur.payload.entries[i].isObj
          /\ cur.payload.entries[i].sensor_id # None =>
                ~KeyExists(pre, KeyOf(cur.payload.entries[i], now)[1],
                           cur.payload.entries[i].sensor_id)
    /\ flt = "ok"

\* The entries of the request in `cur` that carry a sensor_id: N - K.
WithSensorId ==
    {i \in 1..Len(cur.payload.entries) : cur.payload.entries[i].sensor_id # None}

\* C12: a CreateBulk of N entry objects of which K lack sensor_id reports N-K
\* records inserted and leaves exactly N-K new rows in the store, also when
\* entries omit `time`.  (Two entries of one batch that omit `time` for the
\* same sensor get the same NOW(): the second is a duplicate key, the batch
\* is answered 500 and nothing is inserted.)
C12_BulkInsertsEveryEntryWithSensorId ==
    BulkOfObjects =>
        /\ Len(resp) = 1
        /\ resp[1].status_code = 201
        /\ resp[1].data.count = Cardinality(WithSensorId)
        /\ pre \subseteq store
        /\ Cardinality(store \ pre) = Cardinality(WithSensorId)

\* A GetById naming a sensor of which the store holds a reading inside the
\* window, reaching a store that answers.
GetByIdServed ==
    /\ Served
    /\ cur.topic \in {TOPICS.get_by_id_request, ROUTES.get_by_id}
    /\ cur.payload.kind = "object"
    /\ cur.payload.sensor_id # None
    /\ SelectedOf(pre, now, cur.payload.sensor_id, HoursOf(cur.payload)) # {}
    /\ flt = "ok"

\* A Create that omitted `time` and was answered 201.
CreatedNow ==
    /\ Served
    /\ cur.topic \in {TOPICS.create_request, ROUTES.create}
    /\ cur.payload.kind = "object"
    /\ cur.payload.time = None
    /\ resp[1].status_code = 201

\* C13: a reading stored by a Create carries the Create's temperature and
\* humidity and, when `time` was omitted, a timestamp not earlier than the
\* Create; a following GetById for its sensor is answered 200 with a list
\* holding every reading of that sensor inside the window.  (The statement
\* of GetById has its placeholder inside the quotes of its interval literal:
\* its window is two hours, whatever `hours` is.)
C13_CreateThenGetByIdReturnsReading ==
    /\ CreatedNow =>
          /\ resp[1].data.row.time >= now
          /\ resp[1].data.row.temperature = cur.payload.temperature
          /\ resp[1].data.row.humidity = cur.payload.humidity
          /\ resp[1].data.row \in store
    /\ GetByIdServed =>
          /\ Len(resp) = 1
          /\ resp[1].status_code = 200
          /\ \A r \in pre :
                (r.sensor_id = cur.payload.sensor_id
                    /\ InWindow(r, now, HoursOf(cur.payload)))
                => \E i \in 1..Len(resp[1].data.rows) : resp[1].data.rows[i] = r

\* C14: when the store is unavailable or a statement fails during any of the
\* ten operations, the handler publishes one 500 envelope carrying an error
\* text and returns: the bridge stays Subscribed with its thread running.
C14_HandlersCatchStoreFailures ==
    (Handled /\ cur.topic \in RequestTopics /\ StoreFails(flt)) =>
        /\ Len(resp) = 1
        /\ resp[1].status_code = 500
        /\ resp[1].data.error # ""
        /\ resp[1].topic = PairedResponse(cur.topic)
        /\ bridge = "Subscribed"
        /\ stopCause = "none"
        /\ store = pre

C14_Witness ==
    /\ Handled
    /\ cur.topic = TOPICS.update_request
    /\ flt = "query_fail"
    /\ resp[1].status_code = 500
    /\ bridge = "Subscribed"

\* C15: a handler that has returned opened at most one store connection and
\* closed every connection it opened, whatever path it left by.  (conn.close()
\* stands on the success and not-found paths only: a handler that leaves
\* through an except clause after get_db_connection() leaves its connection
\* open.)
C15_ConnectionReleasedOnEveryPath ==
    (Handled /\ cur.topic \in RequestTopics) =>
        /\ conn.opened <= 1
        /\ conn.closed = conn.opened

\* A Create whose (time, sensor_id) the store holds already.
CreateRejected ==
    /\ Served
    /\ cur.topic \in {TOPICS.create_request, ROUTES.create}
    /\ cur.payload.kind = "object"
    /\ cur.payload.sensor_id # None
    /\ KeyExists(pre, KeyOf(cur.payload, now)[1], cur.payload.sensor_id)
    /\ flt = "ok"

\* A CreateBulk of entry objects one of whose inserts hits a (time, sensor_id)
\* that the store, or an earlier entry of the batch, holds already.
BulkRejected ==
    /\ Served
    /\ cur.topic \in {TOPICS.create_bulk_request, ROUTES.create_bulk}
    /\ cur.payload.kind = "list"
    /\ \A i \in 1..Len(cur.payload.entries) : cur.payload.entries[i].isObj
    /\ ~BulkLoop(pre, now, cur.payload.entries, 1, 0).ok
    /\ flt = "ok"

\* C16: an insert rejected because its (time, sensor_id) exists already is
\* answered 409, by CreateBulk as by Create.  (CreateBulk has no clause for
\* the IntegrityError: it is answered 500.)
C16_DuplicateInsertIs409 ==
    (CreateRejected \/ BulkRejected) =>
        /\ Len(resp) = 1
        /\ resp[1].status_code = 409

\* A Create or Update with an empty payload or {}.
NoDataRequest ==
    /\ Handled
    /\ cur.topic \in {TOPICS.create_request, TOPICS.update_request}
    /\ cur.payload.kind \in {"empty", "emptyobj"}

\* The identity fields an operation requires.
NeedsSensorId ==
    {TOPICS.create_request, TOPICS.get_by_id_request, TOPICS.delete_by_id_request}

NeedsTimeAndSensorId == {TOPICS.update_request, TOPICS.delete_request}

\* A request that passes the first validation and lacks an identity field.
MissingIdentityRequest ==
    /\ Handled
    /\ ~NoDataRequest
    /\ cur.payload.kind \in {"empty", "emptyobj", "object"}
    /\ \/ cur.topic \in NeedsSensorId /\ cur.payload.sensor_id = None
       \/ /\ cur.topic \in NeedsTimeAndSensorId
          /\ (cur.payload.time = None \/ cur.payload.sensor_id = None)

\* The message of the 400 for a missing identity field.
FieldMessage(topic) ==
    CASE topic \in NeedsSensorId          -> "sensor_id is required"
      [] topic = TOPICS.update_request    ->
             "time and sensor_id are required to identify the record"
      [] topic = TOPICS.delete_request    -> "time and sensor_id are required"

\* C17: the bridge's handlers validate in a fixed order and before any store
\* access: an empty payload or {} on Create or Update is answered 400 "No data
\* provided"; otherwise a missing identity field is answered 400 with the
\* message of that field; in both cases no store connection is opened and
\* the store is unchanged, whatever state the store is in.
C17_ValidationBeforeStore ==
    /\ NoDataRequest =>
          /\ Len(resp) = 1
          /\ resp[1].status_code = 400
          /\ resp[1].data.error = "No data provided"
          /\ conn.opened = 0
          /\ store = pre
    /\ MissingIdentityRequest =>
          /\ Len(resp) = 1
          /\ resp[1].status_code = 400
          /\ resp[1].data.error = FieldMessage(cur.topic)
          /\ conn.opened = 0
          /\ store = pre

C17_Witness ==
    /\ MissingIdentityRequest
    /\ cur.topic = TOPICS.update_request
    /\ cur.payload.sensor_id # None
    /\ cur.payload.temperature # None
    /\ pre # {}
    /\ resp[1].status_code = 400

\* The operations, by the key of their route.
Ops == DOMAIN ROUTES

\* The request topic of an operation.
TopicOf(op) ==
    CASE op = "health"       -> TOPICS.health_request
      [] op = "get_all"      -> TOPICS.get_all_request
      [] op = "get_by_id"    -> TOPICS.get_by_id_request
      [] op = "create"       -> TOPICS.create_request
      [] op = "create_bulk"  -> TOPICS.create_bulk_request
      [] op = "update"       -> TOPICS.update_request
      [] op = "delete"       -> TOPICS.delete_request
      [] op = "delete_by_id" -> TOPICS.delete_by_id_request
      [] op = "stats"        -> TOPICS.stats_request
      [] op = "time_bucket"  -> TOPICS.time_bucket_request

\* The operation a request is for.
OpOf(m) ==
    CHOOSE op \in Ops : m.topic = ROUTES[op] \/ m.topic = TopicOf(op)

\* Operations whose HTTP request carries a body; the others take query
\* arguments and path parameters.
BodyOps == {"create", "create_bulk", "update"}

\* Operations whose HTTP route has the sensor_id in its path.
PathOps == {"get_by_id", "delete_by_id"}

\* The request in `cur` can be made through both transports: its bytes
\* decode, and where HTTP takes arguments they form an object, with the path
\* parameter present.
OnBothTransports ==
    /\ Served
    /\ cur.payload.kind # "badutf8"
    /\ \E op \in Ops : cur.topic = ROUTES[op] \/ cur.topic = TopicOf(op)
    /\ OpOf(cur) \notin BodyOps =>
          /\ cur.payload.kind \in {"emptyobj", "object"}
          /\ OpOf(cur) \in PathOps => cur.payload.sensor_id # None

\* What the other transport's handler does with the request in `cur`, on
\* the same store, at the same time, the store behaving the same.
OtherTransport ==
    IF cur.transport = "mqtt"
    THEN View(ROUTES[OpOf(cur)], pre, now, cur.payload, flt)
    ELSE Call(handlers(TopicOf(OpOf(cur))), pre, now, cur.payload, flt)

\* C18: for the same operation, the same request and the same store, the
\* HTTP view and the pub/sub handler answer with the same status code and
\* leave the same store.  (A Create, CreateBulk or Update with no body at
\* all is answered 400 by the handler and 500 by the view.)
C18_TransportsEquivalent ==
    OnBothTransports =>
        /\ Len(resp) = 1
        /\ Len(OtherTransport.resp) = 1
        /\ OtherTransport.resp[1].status_code = resp[1].status_code
        /\ OtherTransport.store = store

\* The transports agree on every request that carries some body.
AgreeOnRequestsWithBody ==
    (OnBothTransports /\ cur.payload.kind # "empty") =>
        /\ OtherTransport.resp[1].status_code = resp[1].status_code
        /\ OtherTransport.store = store

\* The readings of sensor sid that the request in `cur` asks about: those
\* in the store whose time is inside the requested window.
Window(sid) == SelectedOf(pre, now, sid, HoursOf(cur.payload))

\* The sensors with a reading inside the requested window.
SensorsInWindow == {sid \in SensorIds : Window(sid) # {}}

\* The record Stats owes for sensor sid.
IsStatsOf(rec, sid) ==
    /\ rec.sensor_id = sid
    /\ rec.total_readings = Cardinality(Window(sid))
    /\ rec.avg_temperature = Avg(Window(sid), "temperature")

\* A Stats request whose window holds a reading of the sensors asked for,
\* reaching a store that answers.
StatsServed ==
    /\ Served
    /\ cur.topic \in {TOPICS.stats_request, ROUTES.stats}
    /\ cur.payload.kind \in {"empty", "emptyobj", "object"}
    /\ IF cur.payload.sensor_id # None
       THEN Window(cur.payload.sensor_id) # {}
       ELSE SensorsInWindow # {}
    /\ flt = "ok"

\* C19: Stats for one sensor returns one record whose total_readings is the
\* number of that sensor's readings inside the window and whose
\* avg_temperature is the mean of their temperatures; with sensor_id omitted
\* it returns one record per sensor with a reading inside the window, in
\* ascending sensor_id.  (The window of the statement is one hour, or two
\* with a sensor_id, whatever `hours` is.)
C19_StatsCountsAndAverages ==
    StatsServed =>
        /\ Len(resp) = 1
        /\ resp[1].status_code = 200
        /\ LET rows == resp[1].data.rows IN
           IF cur.payload.sensor_id # None
           THEN Len(rows) = 1 /\ IsStatsOf(rows[1], cur.payload.sensor_id)
           ELSE /\ Len(rows) = Cardinality(SensorsInWindow)
                /\ \A i \in 1..Len(rows) :
                      /\ rows[i].sensor_id \in SensorsInWindow
                      /\ IsStatsOf(rows[i], rows[i].sensor_id)
                /\ \A i, j \in 1..Len(rows) :
                      i < j => rows[i].sensor_id < rows[j].sensor_id

\* The groups TimeBucket owes: one per (bucket, sensor_id) with a reading
\* of the readings S.
BucketGroups(S) ==
    {<<time_bucket(BucketMinutes, r.time), r.sensor_id>> : r \in S}

\* A TimeBucket request of width '1 hour' whose window holds a reading of
\* the sensors asked for, reaching a store that answers.
TimeBucketServed ==
    /\ Served
    /\ cur.topic \in {TOPICS.time_bucket_request, ROUTES.time_bucket}
    /\ cur.payload.kind \in {"empty", "emptyobj", "object"}
    /\ cur.payload.bucket = ""
    /\ IF cur.payload.sensor_id # None
       THEN Window(cur.payload.sensor_id) # {}
       ELSE SensorsInWindow # {}
    /\ flt = "ok"

\* The readings the TimeBucket in `cur` is asked to group.
Asked ==
    IF cur.payload.sensor_id # None
    THEN Window(cur.payload.sensor_id)
    ELSE UNION {Window(sid) : sid \in SensorIds}

\* C20: TimeBucket of width '1 hour' returns one group per (bucket,
\* sensor_id) with a reading inside the window, each counting the readings
\* that fall in it, so that the counts sum to the number of readings in the
\* window and two readings of one sensor 90 minutes apart make two groups of
\* one reading; the groups come newest bucket first.  (The window of the
\* statement is one hour, or two with a sensor_id, whatever `hours` is.)
C20_TimeBucketGroupsEveryReadingOnce ==
    TimeBucketServed =>
        /\ Len(resp) = 1
        /\ resp[1].status_code = 200
        /\ LET rows == resp[1].data.rows IN
           /\ Len(rows) = Cardinality(BucketGroups(Asked))
           /\ \A i \in 1..Len(rows) :
                 /\ <<rows[i].bucket, rows[i].sensor_id>> \in BucketGroups(Asked)
                 /\ rows[i].readings =
                       Cardinality({r \in Asked :
                           /\ time_bucket(BucketMinutes, r.time) = rows[i].bucket
                           /\ r.sensor_id = rows[i].sensor_id})
           /\ \A i, j \in 1..Len(rows) :
                 /\ i < j => rows[i].bucket >= rows[j].bucket
                 /\ i # j => <<rows[i].bucket, rows[i].sensor_id>>
                               # <<rows[j].bucket, rows[j].sensor_id>>

\* C21: on every accepted CONNACK the subscription set becomes the ten
\* request topics and no response topic; on a refused one on_connect
\* subscribes to nothing; and no envelope the bridge publishes is on a topic
\* it is subscribed to.
C21_SubscribesToRequestTopicsOnly ==
    [][/\ (bridge = "Connecting" /\ bridge' = "Subscribed") =>
             /\ subs' = RequestTopics
             /\ Cardinality(subs') = 10
             /\ subs' \cap ResponseTopics = {}
       /\ (bridge = "Connecting" /\ bridge' = "Refused") => subs' = subs
       /\ \A i \in 1..Len(resp') : resp'[i].topic \notin subs']_vars

C21_Witness ==
    /\ Handled
    /\ bridge = "Subscribed"
    /\ subs = RequestTopics
    /\ Len(resp) = 1
    /\ resp[1].topic \in ResponseTopics

\* The operations that take an optional sensor_id.
FilterOps ==
    {TOPICS.get_all_request, TOPICS.stats_request, TOPICS.time_bucket_request,
     ROUTES.get_all, ROUTES.stats, ROUTES.time_bucket}

\* A GetAll, Stats or TimeBucket that carries a sensor_id, reaching a store
\* that answers.
ReadOfSensor ==
    /\ Served
    /\ cur.topic \in FilterOps
    /\ cur.payload.kind = "object"
    /\ cur.payload.sensor_id # None
    /\ flt = "ok"

\* C22: a GetAll, Stats or TimeBucket that carries a sensor_id, 0 included,
\* works on the readings of that sensor only: the readings its statement
\* selects, and every reading or aggregate it answers with, are of that
\* sensor.  (`if sensor_id:` takes the statement without `sensor_id = %s`
\* when the sensor_id is 0.)
C22_SensorIdFiltersResults ==
    ReadOfSensor =>
        /\ Fetched(pre, now, cur.payload.sensor_id, HoursOf(cur.payload))
              \subseteq OfSensor(pre, cur.payload.sensor_id)
        /\ \A i \in 1..Len(resp) : \A j \in 1..Len(resp[i].data.rows) :
              resp[i].data.rows[j].sensor_id = cur.payload.sensor_id

\* A GetAll whose payload is an object or nothing, reaching a store that
\* answers.
GetAllServed ==
    /\ Served
    /\ cur.topic \in {TOPICS.get_all_request, ROUTES.get_all}
    /\ cur.payload.kind \in {"empty", "emptyobj", "object"}
    /\ flt = "ok"

\* The sequence holds every element of S.
HoldsAll(seq, S) == \A r \in S : \E i \in 1..Len(seq) : seq[i] = r

\* C23: `limit` truncates the unfiltered form only.  A GetAll without
\* sensor_id fetches at most `limit` readings, the newest of the window,
\* newest first, and a 200 carries them with their number as count; a GetAll
\* or GetById for one sensor (other than 0, see C22) fetches every reading of
\* that sensor inside the window, whatever `limit` is.  (The statement of
\* GetAll with `sensor_id = %s` ends in LIMIT %s too.)
C23_LimitOnlyWhenUnfiltered ==
    /\ (GetAllServed /\ cur.payload.sensor_id = None) =>
          LET rows == get_all_rows(pre, now, cur.payload) IN
          /\ Len(rows) <= LimitOf(cur.payload)
          /\ \A i, j \in 1..Len(rows) : i < j => rows[i].time >= rows[j].time
          /\ \A i \in 1..Len(rows) : rows[i] \in pre
          /\ \A i \in 1..Len(resp) :
                resp[i].status_code = 200 =>
                    resp[i].data.rows = rows /\ resp[i].data.count = Len(rows)
    /\ (GetAllServed /\ cur.payload.sensor_id \notin {None, 0}) =>
          HoldsAll(get_all_rows(pre, now, cur.payload), Window(cur.payload.sensor_id))
    /\ GetByIdServed =>
          HoldsAll(get_by_id_rows(pre, now, cur.payload), Window(cur.payload.sensor_id))

\* A GetAll, Stats or TimeBucket with no payload at all, reaching a store
\* that answers.
EmptyRead ==
    /\ Handled
    /\ cur.topic \in {TOPICS.get_all_request, TOPICS.stats_request,
                      TOPICS.time_bucket_request}
    /\ cur.payload.kind = "empty"
    /\ flt = "ok"

\* What the handler of the request in `cur` does with the payload {}.
AsIfEmptyObject ==
    Call(handlers(cur.topic), pre, now, Bare("emptyobj"), flt)

\* C24: an empty payload is an empty envelope.  GetAll, Stats and TimeBucket
\* given no payload answer 200, with what {} is answered with: the readings
\* of the last 24 hours (at most 100 of them for GetAll, in buckets of one
\* hour for TimeBucket); HealthCheck answers 200 for any payload whenever
\* the store can be connected to.  (The three reads take the default 24 and
\* answer with the readings of the last hour, see C13; payload bytes that are
\* not UTF-8 get no answer, see C1.)
C24_EmptyPayloadIsEmptyEnvelope ==
    /\ EmptyRead =>
          /\ Len(resp) = 1
          /\ resp = AsIfEmptyObject.resp
          /\ HoursOf(Loaded(cur.payload, Bare("emptyobj"))) = 24
          /\ LimitOf(Loaded(cur.payload, Bare("emptyobj"))) = 100
          /\ BucketOf(Loaded(cur.payload, Bare("emptyobj"))) = "1 hour"
          /\ BucketMinutes = 60
          /\ resp[1].status_code = 200
          /\ cur.topic = TOPICS.get_all_request =>
                resp[1].data.rows =
                    Limit(NewestFirst(Selected(pre, now, None, DefaultHours)),
                          DefaultLimit)
    /\ (Handled /\ cur.topic = TOPICS.health_request /\ flt # "connect_fail") =>
          /\ Len(resp) = 1
          /\ resp[1].status_code = 200
          /\ resp[1].data.message = "healthy"

\* A Delete naming a (time, sensor_id), reaching a store that answers.
DeleteServed ==
    /\ Served
    /\ cur.topic \in {TOPICS.delete_request, ROUTES.delete}
    /\ cur.payload.kind = "object"
    /\ cur.payload.time # None
    /\ cur.payload.sensor_id # None
    /\ flt = "ok"

\* C25: a Delete naming the (time, sensor_id) of an existing reading removes
\* that row and no other and is answered 200 with deleted_count 1; a Delete
\* whose key matches no row is answered 404 and leaves the store as it was.
C25_DeleteRemovesExactlyOneRow ==
    DeleteServed =>
        /\ Len(resp) = 1
        /\ IF KeyExists(pre, cur.payload.time, cur.payload.sensor_id)
           THEN /\ resp[1].status_code = 200
                /\ resp[1].data.count = 1
                /\ \E old \in pre :
                      /\ old.time = cur.payload.time
                      /\ old.sensor_id = cur.payload.sensor_id
                      /\ store = pre \ {old}
           ELSE /\ resp[1].status_code = 404
                /\ store = pre

C25_Witness ==
    /\ DeleteServed
    /\ cur.transport = "mqtt"
    /\ resp[1].status_code = 200
    /\ Cardinality(pre) = 2
    /\ Cardinality(store) = 1
    /\ \A r \in pre : r.sensor_id = cur.payload.sensor_id

\* A DeleteById naming a sensor, reaching a store that answers.
DeleteByIdServed ==
    /\ Served
    /\ cur.topic \in {TOPICS.delete_by_id_request, ROUTES.delete_by_id}
    /\ cur.payload.kind = "object"
    /\ cur.payload.sensor_id # None
    /\ flt = "ok"

\* C26: a DeleteById removes every reading of its sensor and no reading of
\* another, and is answered 200 with the number of rows removed, also when
\* that number is 0.
C26_DeleteByIdRemovesSensorOnly ==
    DeleteByIdServed =>
        /\ Len(resp) = 1
        /\ resp[1].status_code = 200
        /\ resp[1].data.count = Cardinality(OfSensor(pre, cur.payload.sensor_id))
        /\ OfSensor(store, cur.payload.sensor_id) = {}
        /\ store = {r \in pre : r.sensor_id # cur.payload.sensor_id}

C26_Witness ==
    /\ DeleteByIdServed
    /\ cur.transport = "mqtt"
    /\ resp[1].status_code = 200
    /\ resp[1].data.count = 0
    /\ store = pre
    /\ store # {}

\* A CreateBulk one of whose entries raises after an earlier entry of the
\* batch was inserted: an entry that is no object, or a duplicate key.
BulkFailsMidway ==
    /\ Served
    /\ cur.topic \in {TOPICS.create_bulk_request, ROUTES.create_bulk}
    /\ cur.payload.kind = "list"
    /\ flt = "ok"
    /\ ~BulkLoop(pre, now, cur.payload.entries, 1, 0).ok
    /\ BulkLoop(pre, now, cur.payload.entries, 1, 0).count > 0

\* A CreateBulk whose list is not empty, failed by the store or by one of
\* its entries.
BulkFails ==
    /\ Served
    /\ cur.topic \in {TOPICS.create_bulk_request, ROUTES.create_bulk}
    /\ cur.payload.kind = "list"
    /\ StoreFails(flt) \/ ~BulkLoop(pre, now, cur.payload.entries, 1, 0).ok

\* C27: CreateBulk is all-or-nothing.  If the store or an entry of the batch
\* fails, after earlier entries were inserted too, the store holds none of
\* the batch's rows afterwards and the answer is an error envelope, never a
\* 201; a batch answered 201 has all its inserts in the store.
C27_BulkIsAllOrNothing ==
    /\ BulkFails =>
          /\ store = pre
          /\ Len(resp) = 1
          /\ resp[1].status_code \notin {200, 201}
          /\ resp[1].data.error # ""
    /\ (Served /\ cur.topic \in {TOPICS.create_bulk_request, ROUTES.create_bulk}
           /\ Len(resp) = 1 /\ resp[1].status_code = 201) =>
          /\ pre \subseteq store
          /\ Cardinality(store \ pre) = resp[1].data.count

C27_Witness ==
    /\ BulkFailsMidway
    /\ cur.transport = "mqtt"
    /\ resp[1].status_code = 500
    /\ store = pre

\* C28: a request answered with a status other than 200 or 201 has not
\* changed the store, whatever the operation and wherever it failed, after
\* the write too.  (conn.commit() comes before the result is formatted and
\* published, inside the same try: an exception there is answered 500 and
\* the write stays.)
C28_ErrorAnswerLeavesStoreUnchanged ==
    (Served /\ Len(resp) = 1 /\ resp[1].status_code \notin {200, 201}) =>
        store = pre

\* Both handlers have answered.
RaceDone == \A w \in Workers : race[w].pc = "done"

\* The status code handler w answered with.
Answer(w) == race[w].answer[1].status_code

\* Two Creates for one (time, sensor_id) that the store did not hold have
\* run at the same time.
CreateRace ==
    /\ RaceDone
    /\ \A w \in Workers : IsCreate(race[w].req)
    /\ race[1].req.payload.time = race[2].req.payload.time
    /\ ~KeyExists(pre, race[1].req.payload.time, 1)

\* C29: when two handlers, of the HTTP binding and of a bridge or of two
\* bridges, handle a Create for the same explicit (time, sensor_id) at the
\* same time, then under every interleaving one answers 201 and the other
\* 409, and the store ends with one row for that key, holding the values of
\* the Create answered 201.
C29_ConcurrentCreatesOne201One409 ==
    CreateRace =>
        \E w \in Workers : \E v \in Workers \ {w} :
            /\ Answer(w) = 201
            /\ Answer(v) = 409
            /\ store = pre \cup {MkRow(race[w].req.payload.time,
                                       race[w].req.payload.sensor_id,
                                       race[w].req.payload.temperature,
                                       race[w].req.payload.humidity)}

C29_Witness ==
    /\ CreateRace
    /\ race[1].req.transport = "http"
    /\ race[2].req.transport = "mqtt"
    /\ race[1].req.payload.temperature # race[2].req.payload.temperature
    /\ Answer(2) = 201
    /\ Answer(1) = 409
    /\ race[1].snap = race[2].snap

\* Two Updates of one existing reading, one supplying the temperature only
\* and the other the humidity only, have run at the same time.
UpdateRace ==
    /\ RaceDone
    /\ \A w \in Workers : IsUpdate(race[w].req)
    /\ race[1].req.payload.time = race[2].req.payload.time
    /\ KeyExists(pre, race[1].req.payload.time, 1)
    /\ \E w \in Workers : \E v \in Workers \ {w} :
          /\ race[w].req.payload.temperature # None
          /\ race[v].req.payload.humidity # None

\* C30: two Updates of the same existing reading that run at the same time,
\* one supplying only the temperature and the other only the humidity, are
\* both answered 200 and leave the row with both new values under every
\* interleaving.
C30_ConcurrentUpdatesBothKept ==
    UpdateRace =>
        /\ \A w \in Workers : Answer(w) = 200
        /\ store = {MkRow(race[1].req.payload.time, 1, 255, 450)}

C30_Witness ==
    /\ UpdateRace
    /\ race[1].req.transport # race[2].req.transport
    /\ race[1].snap = race[2].snap
    /\ pre = {MkRow(1, 1, 235, None)}
    /\ store = {MkRow(1, 1, 255, 450)}

\* C31: with a single bridge, for every topic pair and every k, the k-th
\* envelope published on sensors/X/response was published by the handler of
\* the k-th message received on sensors/X/request.
C31_ResponsesInRequestOrder ==
    \A tp \in RequestTopics :
        LET out == log.pub[PairedResponse(tp)] IN
        \A k \in 1..Len(out) : out[k] = [from |-> tp, k |-> k]

\* Two Creates and a HealthCheck between them have been answered.
C31_Witness ==
    /\ pc = "idle"
    /\ log.rcv[TOPICS.create_request] = 2
    /\ log.rcv[TOPICS.health_request] = 1
    /\ Len(log.pub[TOPICS.create_response]) = 2
    /\ Len(log.pub[TOPICS.health_response]) = 1

\* A HealthCheck, GetAll, GetById, Stats or TimeBucket has been served, on
\* either transport.
ReadServed ==
    /\ Served
    /\ cur.topic \in ReadTopics \cup {TOPICS.health_request}
                      \cup {ROUTES.health, ROUTES.get_all, ROUTES.get_by_id,
                            ROUTES.stats, ROUTES.time_bucket}

\* C32: HealthCheck, GetAll, GetById, Stats and TimeBucket never change the
\* store: whatever the payload, any text given as `bucket` included, and
\* whatever the store does, the rows after the request are the rows before it.
C32_ReadsLeaveStoreUnchanged == ReadServed => store = pre

\* A TimeBucket whose `bucket` carries a column that deletes the table's rows
\* has been answered 200 over a table that holds readings.
C32_Witness ==
    /\ ReadServed
    /\ cur.payload.bucket = CallingBucket
    /\ resp[1].status_code = 200
    /\ pre # {}
    /\ store = pre

====
